---- MODULE Spec2Model ----
(***************************************************************************)
(* Model of azugo.io/opentelemetry: the request span lifecycle middleware, *)
(* the goroutine trace-context registry, the panic handler, the log        *)
(* correlation core, the context bridge and the instrumentation recorder   *)
(* dispatch.                                                               *)
(***************************************************************************)
EXTENDS Integers, Sequences, FiniteSets, TLC

\* ------------------------------------------------------------------ bounds
\* Log writes a handler issues per request.
MaxLogs == 1
\* Filters configured on the middleware.
MaxFilters == 2
\* Requests served one after another by the same goroutine.
MaxRequests == 2

\* Goroutines (execution units) serving requests concurrently.
Units == {"g1", "g2"}

\* fasthttp.StatusInternalServerError
StatusInternalServerError == 500

\* Final response status codes a handler may leave on the response.
StatusCodes == {99, 100, 200, 404, 499, 500, 599, 600}

\* Kinds of value a handler may panic with.
PanicVals == {"error", "string", "other"}

\* ------------------------------------------------------------- span contexts
\* trace.SpanContext{}: the zero value, not valid.
NoSpanCtx == [valid |-> FALSE, remote |-> FALSE, trace |-> <<"zero", 0>>, span |-> <<"zero", 0>>]

\* What the propagator can extract from the inbound headers: nothing, a span
\* context that is valid but not remote, or a valid remote one.
IncomingCtxs ==
    { NoSpanCtx,
      [valid |-> TRUE, remote |-> FALSE, trace |-> <<"local", 0>>, span |-> <<"local", 0>>],
      [valid |-> TRUE, remote |-> TRUE, trace |-> <<"remote", 0>>, span |-> <<"remote", 0>>] }

IsValid(sc) == sc.valid

IsRemote(sc) == sc.remote

\* A registry slot with no entry (sync.Map Load reports ok = false).
Absent == [valid |-> FALSE, remote |-> FALSE, trace |-> <<"absent", 0>>, span |-> <<"absent", 0>>]

\* The reserved key otelParentSpanContext is not set on the request object.
NoValue == [valid |-> FALSE, remote |-> FALSE, trace |-> <<"novalue", 0>>, span |-> <<"novalue", 0>>]

\* ------------------------------------------------------------------- state
VARIABLES
    cfg,                    \* traceware fields and Configuration.TraceLogging
    pc,                     \* position of each goroutine in its request
    reqNo,                  \* requests the goroutine has started
    outcome,                \* path handle took: "none", "notlogged", "filtered", "traced"
    span,                   \* the request span of the goroutine's current request
    userValue,              \* ctx.UserValue(otelParentSpanContext)
    goroutineTraceContexts, \* the registry: goroutine id -> span context
    calls,                  \* per request: calls of next, filters, the predicate,
                            \* registry Store and SetUserValue on the reserved key
    sink,                   \* log records that reached the original sink
    status,                 \* ctx.Response().StatusCode()
    panicVal,               \* the value the handler panicked with
    phRan,                  \* the router's PanicHandler has run
    piRan,                  \* the InstrumentationPanic callback has run
    req,                    \* what the current request brought (its inputs)
    regs,                   \* cfg.instrRecorders: the recorder registrations
    disp,                   \* the last dispatch of the instrumenter
    bridge,                 \* contexts handed to and returned by azugoContext.Context
    regOps,                 \* the last registry operation and what each unit last set
    logger,                 \* the last log write and what it delivered
    app,                    \* the application Use is called on, and the tasker
    rec,                    \* the last call of a built-in recorder
    conv                    \* the last call of an attribute builder

\* The state of the instrumentation dispatch and of the context bridge.
auxVars == <<regs, disp, bridge, regOps, logger, app, rec, conv>>

\* The state of the request lifecycle.
\* The state of the request lifecycle outside the registry.
lifeVars == <<cfg, pc, reqNo, outcome, span, userValue, calls, sink, status,
              panicVal, phRan, piRan, req>>

reqVars == <<cfg, pc, reqNo, outcome, span, userValue, goroutineTraceContexts,
             calls, sink, status, panicVal, phRan, piRan, req>>

vars == <<reqVars, auxVars>>

\* ------------------------------------------------------------ status mapping
\* A status mapping that takes client errors for span errors.
HTTPServerStatusClientErrors(code) ==
    IF code < 100 \/ code >= 600
    THEN [code |-> "Error", msg |-> "Invalid HTTP status code"]
    ELSE IF code >= 400
         THEN [code |-> "Error", msg |-> ""]
         ELSE [code |-> "Unset", msg |-> ""]

\* A mapping that describes every error status.
HTTPServerStatusDescribed(code) ==
    IF code < 100 \/ code >= 600
    THEN [code |-> "Error", msg |-> "Invalid HTTP status code"]
    ELSE IF code >= 500
         THEN [code |-> "Error", msg |-> "Server error"]
         ELSE [code |-> "Unset", msg |-> ""]

\* httpConv.ServerStatus / semconvutil.HTTPServerStatus.
HTTPServerStatus(code) ==
    IF code < 100 \/ code >= 600
    THEN [code |-> "Error", msg |-> "Invalid HTTP status code"]
    ELSE IF code >= 500
         THEN [code |-> "Error", msg |-> ""]
         ELSE [code |-> "Unset", msg |-> ""]

\* ------------------------------------------------------------------- spans
\* No span: trace.SpanFromContext on a context that carries none.
NoSpan ==
    [started |-> FALSE, sampled |-> FALSE, recording |-> FALSE,
     ctx |-> NoSpanCtx, newRoot |-> FALSE,
     parent |-> NoSpanCtx, links |-> <<>>, name |-> <<>>, route |-> "",
     statusCode |-> "Unset", statusMsg |-> "", httpStatus |-> 0,
     events |-> <<>>, endCalls |-> 0]

\* codes.Code ordering used by the SDK: Unset < Error < Ok.
CodeRank(c) == CASE c = "Unset" -> 0 [] c = "Error" -> 1 [] c = "Ok" -> 2

\* span.SetStatus: ignored once the span has ended or when the code ranks
\* below the one already set; only an Error status keeps its description.
SpanSetStatus(sp, code, msg) ==
    IF ~sp.recording \/ CodeRank(sp.statusCode) > CodeRank(code)
    THEN sp
    ELSE [sp EXCEPT !.statusCode = code,
                    !.statusMsg = IF code = "Error" THEN msg ELSE ""]

\* span.SetAttributes(semconv.HTTPResponseStatusCode(status)).
SpanSetHTTPStatus(sp, code) ==
    IF ~sp.recording THEN sp ELSE [sp EXCEPT !.httpStatus = code]

\* span.RecordError(err, trace.WithStackTrace(true)).
SpanRecordError(sp, err) ==
    IF ~sp.recording THEN sp
    ELSE [sp EXCEPT !.events = Append(@, [name |-> "exception", err |-> err,
                                          stacktrace |-> TRUE])]

\* span.End(): every call is counted; the first one on a recording span ends it.
SpanEnd(sp) ==
    [sp EXCEPT !.endCalls = @ + 1, !.recording = FALSE]

\* ---------------------------------------------------------------- registry
\* A set that stores whatever it is given.
setTraceCtxStoresAny(reg, gid, spanCtx) == [reg EXCEPT ![gid] = spanCtx]

\* A set that keeps one entry for all goroutines.
setTraceCtxSharedKey(reg, gid, spanCtx) ==
    IF ~IsValid(spanCtx) THEN reg ELSE [u \in DOMAIN reg |-> spanCtx]

\* setTraceCtx: an invalid span context is not stored.
setTraceCtx(reg, gid, spanCtx) ==
    IF ~IsValid(spanCtx) THEN reg ELSE [reg EXCEPT ![gid] = spanCtx]

\* A clear that empties the registry.
clearTraceCtxAll(reg, gid) == [u \in DOMAIN reg |-> Absent]

\* clearTraceCtx.
clearTraceCtx(reg, gid) == [reg EXCEPT ![gid] = Absent]

\* currentSpanCtx: the value returned.
currentSpanCtx(reg, gid) ==
    IF reg[gid] # Absent /\ IsValid(reg[gid]) THEN reg[gid] ELSE NoSpanCtx

\* currentSpanCtx: the registry it leaves (an invalid entry is deleted).
currentSpanCtxPurge(reg, gid) ==
    IF reg[gid] # Absent /\ ~IsValid(reg[gid]) THEN [reg EXCEPT ![gid] = Absent]
    ELSE reg

\* ------------------------------------------------------------- the requests
\* What a request brings and what the tracer decides for it: whether the
\* router marked it for logging, each filter's verdict, the span context the
\* propagator extracts, the predicate's verdict, the matched route, the
\* method and the sampler's decision.
Inputs(nFilters, Incoming, Routes, Methods) ==
    [logRequest : BOOLEAN, verdicts : [1..nFilters -> BOOLEAN],
     incoming : Incoming, pubFn : BOOLEAN, route : Routes, method : Methods,
     sampled : BOOLEAN]

\* What is kept of a request's inputs: whether the router marked it for
\* logging, whether some filter rejects it, and, for a request that reaches
\* them, the extracted span context and the predicate's verdict.
NoReq == [logRequest |-> FALSE, rejected |-> FALSE, incoming |-> NoSpanCtx,
          pubFn |-> FALSE, route |-> "", method |-> ""]

ReqOf(c, in) ==
    LET rejected == \E i \in DOMAIN in.verdicts : ~in.verdicts[i]
        reaches == in.logRequest /\ ~rejected
    IN [logRequest |-> in.logRequest,
        rejected |-> in.logRequest /\ rejected,
        incoming |-> IF reaches THEN in.incoming ELSE NoSpanCtx,
        pubFn |-> reaches /\ ~c.publicEndpoint /\ c.publicEndpointFn /\ in.pubFn,
        route |-> IF reaches THEN in.route ELSE "",
        method |-> IF reaches THEN in.method ELSE ""]

\* What handle has called for the request at hand; steps lists, in the order
\* they ran, the finalize step and the deferred clear of its exit path.
NoCalls == [next |-> 0, filters |-> 0, pubFn |-> 0, regStore |-> 0, keySet |-> 0,
            steps |-> <<>>]

\* The filter loop of handle: the filters evaluated until the first rejects.
FiltersEvaluated(verdicts) ==
    IF \E i \in DOMAIN verdicts : ~verdicts[i]
    THEN CHOOSE i \in DOMAIN verdicts :
             ~verdicts[i] /\ \A j \in 1..(i - 1) : verdicts[j]
    ELSE Len(verdicts)

\* A filter loop that lets nothing through when there is no filter.
FiltersAcceptSome(verdicts) ==
    Len(verdicts) > 0 /\ \A i \in DOMAIN verdicts : verdicts[i]

\* A filter loop that asks the first filter only.
FiltersAcceptFirstOnly(verdicts) == Len(verdicts) = 0 \/ verdicts[1]

\* The filter loop of handle: TRUE when no filter rejects the request.
FiltersAccept(verdicts) == \A i \in DOMAIN verdicts : verdicts[i]

\* tw.publicEndpoint || (tw.publicEndpointFn != nil && tw.publicEndpointFn(ctx)).
IsPublicEndpoint(c, in) ==
    c.publicEndpoint \/ (c.publicEndpointFn /\ in.pubFn)

\* A test that calls the predicate whenever one is configured.
PubFnEvaluatedAlways(c) == IF c.publicEndpointFn THEN 1 ELSE 0

\* Go evaluates the predicate only when the static flag is false.
PubFnEvaluated(c) == IF ~c.publicEndpoint /\ c.publicEndpointFn THEN 1 ELSE 0

\* Linking the remote incoming context on every endpoint, public or not.
StartLinksEverywhere(c, in) ==
    IF IsValid(in.incoming) /\ IsRemote(in.incoming) THEN <<in.incoming>> ELSE <<>>

\* Linking any valid incoming context, remote or not.
StartLinksAnyValid(c, in) ==
    IF IsPublicEndpoint(c, in) /\ IsValid(in.incoming)
    THEN <<in.incoming>>
    ELSE <<>>

\* trace.WithLinks on a public endpoint whose incoming context is valid and remote.
StartLinks(c, in) ==
    IF IsPublicEndpoint(c, in) /\ IsValid(in.incoming) /\ IsRemote(in.incoming)
    THEN <<in.incoming>>
    ELSE <<>>

\* A routeStr that keeps the empty path of an unmatched route.
RouteStrRaw(route) == route

\* routeStr of handle: the router path, or the literal for an unmatched route.
RouteStr(route) == IF route = "" THEN "route not found" ELSE route

\* defaultRouteSpanNameFunc: method, a space, the route name.
defaultRouteSpanNameFunc(method, routeName) == <<method, " ", routeName>>

\* tw.tracer.Start(c, spanName, opts...): the span the SDK tracer returns.
StartSpan(c, in, u, n) ==
    LET newRoot == IsPublicEndpoint(c, in)
        parent == IF newRoot THEN NoSpanCtx ELSE in.incoming
    IN [started |-> TRUE, sampled |-> in.sampled, recording |-> in.sampled,
        ctx |-> [valid |-> TRUE, remote |-> FALSE,
                 trace |-> IF IsValid(parent) THEN parent.trace ELSE <<u, n>>,
                 span |-> <<u, n>>],
        newRoot |-> newRoot, parent |-> parent, links |-> StartLinks(c, in),
        name |-> defaultRouteSpanNameFunc(in.method, RouteStr(in.route)),
        route |-> in.route,
        statusCode |-> "Unset", statusMsg |-> "", httpStatus |-> 0,
        events |-> <<>>, endCalls |-> 0]

\* A handle that registers no deferred clear.
deferredClearNever(c, reg, gid) == reg

\* A handle that answers a request a filter rejects without handling it.
nextCallsTracedOnly(path) == IF path = "filtered" THEN 0 ELSE 1

\* The calls of next(ctx) on a path of handle: one on each, before the
\* return of the two pass-through paths and between the start and the end of
\* the span on the traced one.
nextCalls(path) == 1

\* A handle that keeps the extracted context under the reserved key.
startedContextOfParent(sp, extracted) == extracted

\* c of c, span := tw.tracer.Start(c, ...): the context handle puts under the
\* reserved key carries the span just started.
startedContext(sp, extracted) == sp.ctx

\* The deferred clearTraceCtx of handle, registered only with TraceLogging on.
deferredClear(c, reg, gid) ==
    IF c.traceLogging THEN clearTraceCtx(reg, gid) ELSE reg

\* A clear that is not deferred is skipped when the handler panics.
handleUnwindNoClear(c, reg, gid) == reg

\* The same deferred call, run while a panic of the handler unwinds handle.
handleUnwind(c, reg, gid) == deferredClear(c, reg, gid)

\* handle, up to the call of the next handler.
HandleEnter(u, in) ==
    /\ pc[u] = "idle"
    /\ reqNo[u] < MaxRequests
    /\ reqNo' = [reqNo EXCEPT ![u] = @ + 1]
    /\ req' = [req EXCEPT ![u] = ReqOf(cfg, in)]
    /\ pc' = [pc EXCEPT ![u] = "handling"]
    /\ IF ~in.logRequest
       THEN /\ outcome' = [outcome EXCEPT ![u] = "notlogged"]
            /\ calls' = [calls EXCEPT ![u].next = @ + nextCalls("notlogged")]
            /\ UNCHANGED <<span, userValue, goroutineTraceContexts>>
       ELSE IF ~FiltersAccept(in.verdicts)
       THEN /\ outcome' = [outcome EXCEPT ![u] = "filtered"]
            /\ calls' = [calls EXCEPT ![u].next = @ + nextCalls("filtered"),
                                      ![u].filters = FiltersEvaluated(in.verdicts)]
            /\ UNCHANGED <<span, userValue, goroutineTraceContexts>>
       ELSE LET sp == StartSpan(cfg, in, u, reqNo[u] + 1)
            IN /\ outcome' = [outcome EXCEPT ![u] = "traced"]
               /\ span' = [span EXCEPT ![u] = sp]
               /\ userValue' = [userValue EXCEPT ![u] = startedContext(sp, in.incoming)]
               /\ goroutineTraceContexts' =
                      IF cfg.traceLogging
                      THEN setTraceCtx(goroutineTraceContexts, u, sp.ctx)
                      ELSE goroutineTraceContexts
               /\ calls' = [calls EXCEPT
                      ![u].next = @ + nextCalls("traced"),
                      ![u].filters = FiltersEvaluated(in.verdicts),
                      ![u].pubFn = PubFnEvaluated(cfg),
                      ![u].keySet = @ + 1,
                      ![u].regStore = IF cfg.traceLogging /\ IsValid(sp.ctx)
                                      THEN @ + 1 ELSE @]
    /\ UNCHANGED <<cfg, sink, status, panicVal, phRan, piRan>>
    /\ UNCHANGED auxVars

\* TraceCore.Write: the record the original sink receives.  active is the span
\* context of the request span if it is started and not ended at this moment.
TraceCoreWrite(u, by) ==
    LET spanCtx == currentSpanCtx(goroutineTraceContexts, u)
    IN [by |-> by,
        fields |-> IF IsValid(spanCtx)
                   THEN <<[key |-> "trace.id", val |-> spanCtx.trace],
                          [key |-> "span.id", val |-> spanCtx.span]>>
                   ELSE <<>>,
        active |-> IF span[u].started /\ span[u].endCalls = 0
                   THEN span[u].ctx ELSE NoSpanCtx]

\* A log write issued by the handler on the request's goroutine.
HandlerLog(u) ==
    /\ pc[u] = "handling"
    /\ Len(sink[u]) < MaxLogs
    /\ sink' = [sink EXCEPT ![u] = Append(@, TraceCoreWrite(u, "handler"))]
    /\ goroutineTraceContexts' = currentSpanCtxPurge(goroutineTraceContexts, u)
    /\ UNCHANGED <<req, cfg, pc, reqNo, outcome, span, userValue, calls, status,
                   panicVal, phRan, piRan>>
    /\ UNCHANGED auxVars

\* The finalize step of handle: lines after next(ctx) returned.
Finalize(sp, code) ==
    LET s1 == IF code > 0 THEN SpanSetHTTPStatus(sp, code) ELSE sp
        st == HTTPServerStatus(code)
        s2 == SpanSetStatus(s1, st.code, st.msg)
    IN SpanEnd(s2)

\* The handler returns with a final response status; handle finalizes the
\* span and its deferred clear runs as handle returns.
HandlerReturn(u, code) ==
    /\ pc[u] = "handling"
    /\ status' = [status EXCEPT ![u] = code]
    /\ pc' = [pc EXCEPT ![u] = "done"]
    /\ IF outcome[u] = "traced"
       THEN /\ span' = [span EXCEPT ![u] = Finalize(@, code)]
            /\ goroutineTraceContexts' =
                   deferredClear(cfg, goroutineTraceContexts, u)
            /\ calls' = [calls EXCEPT ![u].steps =
                             @ \o <<"finalize">>
                               \o IF cfg.traceLogging THEN <<"clear">> ELSE <<>>]
       ELSE UNCHANGED <<span, goroutineTraceContexts, calls>>
    /\ UNCHANGED <<req, cfg, reqNo, outcome, userValue, sink, panicVal,
                   phRan, piRan>>
    /\ UNCHANGED auxVars

\* The handler panics, having left the response status at code: the panic
\* unwinds handle, skipping its finalize step and running its deferred call,
\* and reaches the router's recovery.
HandlerPanic(u, val, code) ==
    /\ pc[u] = "handling"
    /\ panicVal' = [panicVal EXCEPT ![u] = val]
    /\ status' = [status EXCEPT ![u] = code]
    /\ pc' = [pc EXCEPT ![u] = "panicked"]
    /\ goroutineTraceContexts' =
           IF outcome[u] = "traced"
           THEN handleUnwind(cfg, goroutineTraceContexts, u)
           ELSE goroutineTraceContexts
    /\ calls' = IF outcome[u] = "traced" /\ cfg.traceLogging
                THEN [calls EXCEPT ![u].steps = @ \o <<"clear">>]
                ELSE calls
    /\ UNCHANGED <<req, cfg, reqNo, outcome, span, userValue, sink,
                   phRan, piRan>>
    /\ UNCHANGED auxVars

\* FromContext followed by trace.SpanFromContext: the request span when the
\* reserved key holds its context, and no span otherwise.
SpanFromRequest(u) == IF userValue[u] # NoValue THEN span[u] ELSE NoSpan

\* The err of panicHandler: the value itself if it is an error, errors.New of
\* it if it is a string, and nil for any other value.
PanicErr(val) == IF val \in {"error", "string"} THEN val ELSE "nil"

\* A panic handler that marks the span and forgets to end it.
panicHandlerSpanNoEnd(sp, val) ==
    IF IsValid(sp.ctx) /\ sp.recording
    THEN LET s1 == SpanSetHTTPStatus(sp, StatusInternalServerError)
             s2 == SpanSetStatus(s1, "Error", val)
         IN IF PanicErr(val) # "nil" THEN SpanRecordError(s2, PanicErr(val)) ELSE s2
    ELSE sp

\* The span part of panicHandler.
panicHandlerSpan(sp, val) ==
    IF IsValid(sp.ctx) /\ sp.recording
    THEN LET s1 == SpanSetHTTPStatus(sp, StatusInternalServerError)
             s2 == SpanSetStatus(s1, "Error", val)
             s3 == IF PanicErr(val) # "nil"
                   THEN SpanRecordError(s2, PanicErr(val)) ELSE s2
         IN SpanEnd(s3)
    ELSE sp

\* panicHandler, installed as the router's PanicHandler: it logs, marks and
\* ends the span, and answers with an internal server error.
PanicHandler(u) ==
    /\ pc[u] = "panicked"
    /\ ~phRan[u]
    /\ phRan' = [phRan EXCEPT ![u] = TRUE]
    /\ sink' = [sink EXCEPT ![u] = Append(@, TraceCoreWrite(u, "panicHandler"))]
    /\ goroutineTraceContexts' = currentSpanCtxPurge(goroutineTraceContexts, u)
    /\ span' = IF userValue[u] # NoValue
               THEN [span EXCEPT ![u] = panicHandlerSpan(@, panicVal[u])]
               ELSE span
    /\ status' = [status EXCEPT ![u] = StatusInternalServerError]
    /\ UNCHANGED <<req, cfg, pc, reqNo, outcome, userValue, calls, panicVal, piRan>>
    /\ UNCHANGED auxVars

\* The completion callback instr returns for azugo.InstrumentationPanic.
panicInstrSpan(sp, err, code) ==
    LET s1 == IF IsValid(sp.ctx) /\ sp.recording
              THEN LET a == SpanSetStatus(sp, "Error", err)
                   IN IF err # "nil" THEN SpanRecordError(a, err) ELSE a
              ELSE sp
        s2 == IF code > 0 THEN SpanSetHTTPStatus(s1, code) ELSE s1
        st == HTTPServerStatus(code)
        s3 == SpanSetStatus(s2, st.code, st.msg)
    IN SpanEnd(s3)

\* The host dispatches azugo.InstrumentationPanic and calls the callback with
\* the error it made of the panic value (or with nil).
PanicInstr(u, err) ==
    /\ pc[u] = "panicked"
    /\ ~piRan[u]
    /\ piRan' = [piRan EXCEPT ![u] = TRUE]
    /\ span' = IF userValue[u] # NoValue
               THEN [span EXCEPT ![u] = panicInstrSpan(@, err, status[u])]
               ELSE span
    /\ UNCHANGED <<req, cfg, pc, reqNo, outcome, userValue, goroutineTraceContexts,
                   calls, sink, status, panicVal, phRan>>
    /\ UNCHANGED auxVars

\* The router has finished recovering from the panic; its PanicHandler is
\* always installed, so it has run by then.
HostDone(u) ==
    /\ pc[u] = "panicked"
    /\ phRan[u]
    /\ pc' = [pc EXCEPT ![u] = "done"]
    /\ UNCHANGED <<req, cfg, reqNo, outcome, span, userValue, goroutineTraceContexts,
                   calls, sink, status, panicVal, phRan, piRan>>
    /\ UNCHANGED auxVars

\* The goroutine takes the next request: a fresh request object and response.
NextRequest(u) ==
    /\ pc[u] = "done"
    /\ reqNo[u] < MaxRequests
    /\ pc' = [pc EXCEPT ![u] = "idle"]
    /\ outcome' = [outcome EXCEPT ![u] = "none"]
    /\ span' = [span EXCEPT ![u] = NoSpan]
    /\ userValue' = [userValue EXCEPT ![u] = NoValue]
    /\ calls' = [calls EXCEPT ![u] = NoCalls]
    /\ sink' = [sink EXCEPT ![u] = <<>>]
    /\ status' = [status EXCEPT ![u] = 200]
    /\ panicVal' = [panicVal EXCEPT ![u] = "nil"]
    /\ phRan' = [phRan EXCEPT ![u] = FALSE]
    /\ piRan' = [piRan EXCEPT ![u] = FALSE]
    /\ req' = [req EXCEPT ![u] = NoReq]
    /\ UNCHANGED <<cfg, reqNo, goroutineTraceContexts>>
    /\ UNCHANGED auxVars

\* ------------------------------------------------------------ specification
\* ---------------------------------------------------- instrumentation core
\* Registrations a user may add with InstrumentationRecorder.
MaxRecorders == 2

\* azugo.InstrumentationPanic, the reserved operation of a handler panic.
PanicOp == "panic"

\* Operations the host dispatches.
OpIds == {"", "http-client-request", "cache-get", PanicOp, "custom"}

\* Operations a user recorder may be registered for.
UserOps == {"", "http-client-request", PanicOp, "custom"}

\* A user registration: the operations it names, each once (none: a
\* catch-all), and whether its recorder function reports handled when it is
\* asked.
UserRecorders == [kind : {"user"}, ops : SUBSET UserOps, handles : BOOLEAN]

\* The recorders traceConfig appends after the user's.
BuiltinRecorders ==
    << [kind |-> "http-client", ops |-> {"http-client-request"}, handles |-> TRUE],
       [kind |-> "cache", ops |-> {"cache-get", "cache-set", "cache-delete"},
        handles |-> TRUE] >>

\* A traceConfig that puts the built-in recorders first.
traceConfigBuiltinFirst(user) == BuiltinRecorders \o user

\* traceConfig: cfg.instrRecorders, the user's registrations, then the built-in ones.
traceConfig(user) == user \o BuiltinRecorders

\* What a recorder function answers: a built-in recorder declines arguments of
\* the wrong shape and operations it does not know.
Handled(r, op, argsOk) ==
    CASE r.kind = "user" -> r.handles
      [] r.kind = "http-client" -> op = "http-client-request" /\ argsOk
      [] r.kind = "cache" -> op \in {"cache-get", "cache-set", "cache-delete"} /\ argsOk

\* The indices 1..n in order.
Indices(n) == [i \in 1..n |-> i]

\* The build loop of instr: the list recorders[key], in registration order.
\* A registration is appended to the list of every operation it names, and
\* to the list of the key "" when it names none.
RecordersAt(rs, key) ==
    SelectSeq(Indices(Len(rs)),
              LAMBDA i : key \in rs[i].ops \/ (key = "" /\ rs[i].ops = {}))

\* One dispatch loop of instr: the recorders invoked, up to the first that
\* reports handled, and that recorder (0 when none handled).
TryRecorders(rs, list, op, argsOk) ==
    LET hs == { k \in 1..Len(list) : Handled(rs[list[k]], op, argsOk) }
    IN IF hs = {}
       THEN [invoked |-> list, result |-> 0]
       ELSE LET k == CHOOSE k \in hs : \A j \in hs : k <= j
            IN [invoked |-> SubSeq(list, 1, k), result |-> list[k]]

\* The dispatch function instr returns: the recorders it invoked, in order, and
\* the callback it returned: the one of the last recorder invoked
\* ("recorder"), the no-op one, or the one of its panic branch.
instr(rs, op, argsOk) ==
    IF op = PanicOp
    THEN [op |-> op, argsOk |-> argsOk, invoked |-> <<>>, result |-> "panic"]
    ELSE LET specific == TryRecorders(rs, RecordersAt(rs, op), op, argsOk)
             general == TryRecorders(rs, RecordersAt(rs, ""), op, argsOk)
         IN IF specific.result # 0
            THEN [op |-> op, argsOk |-> argsOk, invoked |-> specific.invoked,
                  result |-> "recorder"]
            ELSE [op |-> op, argsOk |-> argsOk,
                  invoked |-> specific.invoked \o general.invoked,
                  result |-> IF general.result # 0 THEN "recorder" ELSE "noop"]

\* No dispatch has been made.
NoDispatch == [op |-> "", argsOk |-> FALSE, invoked |-> <<>>, result |-> "none"]

\* ----------------------------------------------------------- context bridge
\* Calls of azugoContext.Context in one chain.
MaxBridgeCalls == 3

\* Contexts made in one chain.
MaxContexts == 5

\* A context.Context: its identity, whether it is the *azugo.Context itself,
\* whether it descends from it, whether Value(currentExtendedContextKey) is
\* set on it, and the span context trace.SpanContextFromContext finds on it.
NilCtx == [id |-> 0, direct |-> FALSE, fromReq |-> FALSE, marker |-> FALSE,
           sc |-> NoSpanCtx]

\* context.Background().
Background == [id |-> 1, direct |-> FALSE, fromReq |-> FALSE, marker |-> FALSE,
               sc |-> NoSpanCtx]

\* The request object, a *azugo.Context.
RequestCtx == [id |-> 2, direct |-> TRUE, fromReq |-> TRUE, marker |-> FALSE,
               sc |-> NoSpanCtx]

\* The context handle stored under the reserved key: the one tracer.Start
\* returned, a descendant of the request object.
StoredCtx(sc) == [id |-> 3, direct |-> FALSE, fromReq |-> TRUE, marker |-> FALSE,
                  sc |-> sc]

\* The span context of the request span.
RequestSpanCtx == [valid |-> TRUE, remote |-> FALSE, trace |-> <<"g1", 1>>,
                   span |-> <<"g1", 1>>]

\* What the reserved key can hold: nothing, a value that is no context, or
\* the stored context, with a valid span context or without one.
StoredValues ==
    { [kind |-> "none", ctx |-> NilCtx], [kind |-> "other", ctx |-> NilCtx],
      [kind |-> "ctx", ctx |-> StoredCtx(RequestSpanCtx)],
      [kind |-> "ctx", ctx |-> StoredCtx(NoSpanCtx)] }

\* azugo.RequestContext: the request object of a context.  It is found on the
\* request object itself and, when the framework looks it up by Value, on
\* every context derived from it.
RequestContext(b, ctx) == ctx.direct \/ (b.byValue /\ ctx.fromReq)

\* A FromContext that answers nil when it finds no stored context.
FromContextOrNil(b, ctx) ==
    IF ~RequestContext(b, ctx) THEN NilCtx
    ELSE IF b.stored.kind # "ctx" THEN NilCtx
    ELSE b.stored.ctx

\* FromContext: the stored context, or ctx itself when there is no request
\* object, no value under the key, or a value that is no context.
FromContext(b, ctx) ==
    IF ~RequestContext(b, ctx) THEN ctx
    ELSE IF b.stored.kind # "ctx" THEN ctx
    ELSE b.stored.ctx

\* context.WithValue and the trace.ContextWith... functions: a new child.
Child(ctx, id) == [ctx EXCEPT !.id = id, !.direct = FALSE]

\* azugoContext.Context: the marker is put on pctx, the child is made of ctx.
Context(b, ctx, id) ==
    LET pctx == FromContext(b, ctx)
    IN IF pctx = NilCtx THEN NilCtx
       ELSE IF pctx = ctx \/ pctx.marker THEN NilCtx
       ELSE LET marked == [pctx EXCEPT !.marker = TRUE]
                spanCtx == marked.sc
            IN IF ~IsValid(spanCtx) THEN NilCtx
               ELSE [Child(ctx, id) EXCEPT !.sc = spanCtx]

\* No call of the context bridge has been made.
NoBridge == [byValue |-> FALSE, stored |-> [kind |-> "none", ctx |-> NilCtx],
             cur |-> NilCtx, ret |-> NilCtx, chained |-> FALSE, calls |-> 0,
             made |-> 3, extracted |-> FALSE, extArg |-> NilCtx, ext |-> NilCtx]

\* azugoContext.Context is called on the current context; a context it
\* returns becomes the current one, so the next call is made on it.
BridgeCall ==
    /\ bridge.calls < MaxBridgeCalls
    /\ bridge.made < MaxContexts
    /\ LET r == Context(bridge, bridge.cur, bridge.made + 1)
       IN bridge' = [bridge EXCEPT
              !.ret = r,
              !.chained = (bridge.ret # NilCtx /\ bridge.cur = bridge.ret),
              !.cur = IF r # NilCtx THEN r ELSE @,
              !.calls = @ + 1,
              !.made = IF r # NilCtx THEN @ + 1 ELSE @]
    /\ UNCHANGED <<reqVars, regs, disp, regOps, logger, app, rec, conv>>

\* FromContext is called on the current context.
BridgeExtract ==
    /\ bridge' = [bridge EXCEPT !.extracted = TRUE, !.extArg = bridge.cur,
                                !.ext = FromContext(bridge, bridge.cur)]
    /\ UNCHANGED <<reqVars, regs, disp, regOps, logger, app, rec, conv>>

\* The caller derives a child of the current context with context.WithValue.
BridgeWrap ==
    /\ bridge.made < MaxContexts
    /\ bridge' = [bridge EXCEPT !.cur = Child(@, bridge.made + 1),
                                !.made = @ + 1]
    /\ UNCHANGED <<reqVars, regs, disp, regOps, logger, app, rec, conv>>

\* The instrumenter is called for an operation.
Dispatch(op, argsOk) ==
    /\ disp' = instr(regs, op, argsOk)
    /\ UNCHANGED <<reqVars, regs, bridge, regOps, logger, app, rec, conv>>

\* ------------------------------------------- registry and log correlation
\* Caller-supplied fields of one log write.
MaxFields == 2

\* Fields attached to the logger through With.
MaxWith == 1

\* Keys of caller-supplied fields.
FieldKeys == {"user", "trace.id"}

\* zapcore levels of an entry, and those the original core is enabled for.
Levels == {"debug", "error"}

EnabledLevels == {"error"}

\* No registry operation has been made; shadow is what each unit last stored
\* and has not deleted since.
NoRegOps == [op |-> "none", unit |-> "", arg |-> NoSpanCtx, ret |-> NoSpanCtx,
             shadow |-> [u \in Units |-> Absent]]

\* No log write has been made; entry is what the registry held for the
\* writing unit when the write was made.
NoLogger == [op |-> "none", unit |-> "", level |-> "", fields |-> <<>>,
             entry |-> Absent, sink |-> <<>>, otel |-> <<>>, with |-> <<>>,
             sinkErr |-> FALSE, ret |-> "nil"]

\* The message and the logger name of a log entry.
EntryMessage == "request done"

EntryLoggerName == "app"

\* setTraceCtx called on goroutine u.
RegSet(u, spanCtx) ==
    /\ goroutineTraceContexts' = setTraceCtx(goroutineTraceContexts, u, spanCtx)
    /\ regOps' = [op |-> "set", unit |-> u, arg |-> spanCtx, ret |-> NoSpanCtx,
                  shadow |-> IF spanCtx.valid
                             THEN [regOps.shadow EXCEPT ![u] = spanCtx]
                             ELSE regOps.shadow]
    /\ UNCHANGED <<lifeVars, regs, disp, bridge, logger, app, rec, conv>>

\* currentSpanCtx called on goroutine u.
RegGet(u) ==
    /\ goroutineTraceContexts' = currentSpanCtxPurge(goroutineTraceContexts, u)
    /\ regOps' = [regOps EXCEPT !.op = "get", !.unit = u, !.arg = NoSpanCtx,
                                !.ret = currentSpanCtx(goroutineTraceContexts, u)]
    /\ UNCHANGED <<lifeVars, regs, disp, bridge, logger, app, rec, conv>>

\* clearTraceCtx called on goroutine u.
RegClear(u) ==
    /\ goroutineTraceContexts' = clearTraceCtx(goroutineTraceContexts, u)
    /\ regOps' = [op |-> "clear", unit |-> u, arg |-> NoSpanCtx, ret |-> NoSpanCtx,
                  shadow |-> [regOps.shadow EXCEPT ![u] = Absent]]
    /\ UNCHANGED <<lifeVars, regs, disp, bridge, logger, app, rec, conv>>

\* A TraceCore.Write that puts the identifiers in place of the caller's fields.
TraceCoreFieldsOnlyIds(fields, spanCtx) ==
    IF IsValid(spanCtx)
    THEN <<[key |-> "trace.id", val |-> spanCtx.trace],
           [key |-> "span.id", val |-> spanCtx.span]>>
    ELSE fields

\* The fields TraceCore.Write hands to the core it wraps.
TraceCoreFields(fields, spanCtx) ==
    IF IsValid(spanCtx)
    THEN fields \o <<[key |-> "trace.id", val |-> spanCtx.trace],
                     [key |-> "span.id", val |-> spanCtx.span]>>
    ELSE fields

\* The value of a float field that holds no number.
NaN == "NaN"

\* json.Marshal(logData) returns an error for a value JSON cannot hold.
jsonMarshalFails(fields) == \E i \in DOMAIN fields : fields[i].val = NaN

\* logData[key] after the loop over the fields: the map starts with the
\* entry's own value and every field of that key is assigned over it.
logDataAt(key, own, fields) ==
    LET at == { i \in DOMAIN fields : fields[i].key = key }
    IN IF at = {} THEN own
       ELSE fields[CHOOSE i \in at : \A j \in at : j <= i].val

\* otelLogging.sendOTel: the record body holds the message, the level, the
\* logger name and the fields handed to Write; With keeps its fields in the
\* wrapped core only, so they are not among them.
sendOTel(level, fields, with, spanCtx) ==
    IF jsonMarshalFails(fields) THEN <<>>
    ELSE <<[level |-> logDataAt("level", level, fields),
            message |-> logDataAt("message", EntryMessage, fields),
            loggerName |-> logDataAt("logger", EntryLoggerName, fields),
            fields |-> fields, ctx |-> spanCtx]>>

\* otelLogging.With: the logger in use from now on carries the fields in its
\* wrapped core.
LogWith(fields) ==
    /\ fields # <<>>
    /\ Len(logger.with) + Len(fields) <= MaxWith
    /\ logger' = [logger EXCEPT !.with = @ \o fields]
    /\ UNCHANGED <<reqVars, regs, disp, bridge, regOps, app, rec, conv>>

\* A log write on goroutine u: otelLogging.Check adds the core when the level
\* is enabled; otelLogging.Write writes through TraceCore to the original core
\* and, unless that failed, emits the record to the OpenTelemetry logger.
LogWrite(u, level, fields, sinkErr) ==
    LET spanCtx == currentSpanCtx(goroutineTraceContexts, u)
        enabled == level \in EnabledLevels
    IN /\ logger' =
              [op |-> "write", unit |-> u, level |-> level, fields |-> fields,
               entry |-> goroutineTraceContexts[u],
               sink |-> IF enabled
                        THEN <<[level |-> level, context |-> logger.with,
                                fields |-> TraceCoreFields(fields, spanCtx)]>>
                        ELSE <<>>,
               otel |-> IF enabled /\ ~sinkErr
                        THEN sendOTel(level, fields, logger.with, spanCtx)
                        ELSE <<>>,
               with |-> logger.with,
               sinkErr |-> enabled /\ sinkErr,
               ret |-> IF enabled /\ sinkErr THEN "sink error" ELSE "nil"]
       /\ goroutineTraceContexts' = currentSpanCtxPurge(goroutineTraceContexts, u)
       /\ UNCHANGED <<lifeVars, regs, disp, bridge, regOps, app, rec, conv>>

\* ------------------------------------------------------ built-in recorders
\* What the configured InstrumentationSpanNameFormatter returns: the empty
\* string (as the default formatter does) or a name of its own.
FormatterOutputs == {"", "custom"}

\* Request methods, base URLs and cache names handed to the recorders.
ClientMethods == {"GET", "POST"}

Targets == {"", "https://api", "users"}

\* Where a recorder is called: whether azugo.RequestContext finds the
\* request object of a derived context, what the reserved key of the request
\* holds, and the context the caller passes.
NoRecEnv == [byValue |-> FALSE, stored |-> [kind |-> "none", ctx |-> NilCtx],
             ctx |-> NilCtx]

\* A handler of a traced request passes the request object or a context it
\* derived from it, or some context of its own; a handler of a request that
\* is not traced passes the request object.
RecEnvs ==
    LET traced == [kind |-> "ctx", ctx |-> StoredCtx(RequestSpanCtx)]
    IN { [byValue |-> FALSE, stored |-> traced, ctx |-> RequestCtx],
         [byValue |-> TRUE, stored |-> traced, ctx |-> Child(RequestCtx, 4)],
         [byValue |-> FALSE, stored |-> traced, ctx |-> Background],
         [byValue |-> FALSE, stored |-> NoRecEnv.stored, ctx |-> RequestCtx] }

\* No built-in recorder has been called.
NoRec == [kind |-> "none", op |-> "", argsOk |-> FALSE, fmtOut |-> "",
          method |-> "", target |-> "", handled |-> FALSE, spanName |-> <<>>,
          statusCode |-> "Unset", httpStatus |-> 0, exception |-> FALSE,
          ended |-> FALSE, env |-> NoRecEnv, started |-> FALSE,
          parent |-> NoSpanCtx, ctx |-> NoSpanCtx, injected |-> NoSpanCtx,
          endCalls |-> 0, doneCalls |-> 0]

\* A recorder that starts its span from the context it was called with.
recorderParentOfArg(env) == env.ctx.sc

\* c := FromContext(ctx): the span context the recorder's span is started
\* under.
recorderParent(env) == FromContext(env, env.ctx).sc

\* tracer.Start(c, spanName, opts...): the span context of the new span, in
\* the trace of its parent when there is one.
recorderSpanCtx(parent) ==
    [valid |-> TRUE, remote |-> FALSE,
     trace |-> IF IsValid(parent) THEN parent.trace ELSE <<"client", 1>>,
     span |-> <<"client", 1>>]

\* A recorder that always takes its own default name.
SpanNameDefaultOnly(fmtOut, default) == default

\* spanName := spfmt(ctx, op, args...); if spanName == "" { default }.
SpanNameOr(fmtOut, default) == IF fmtOut = "" THEN default ELSE <<fmtOut>>

\* httpClientRecorder: handled for a request operation with request
\* arguments; the default name is the method, then a space and the base URL
\* when there is one.
httpClientRecorder(env, op, argsOk, fmtOut, method, baseURL) ==
    IF ~(op = "http-client-request" /\ argsOk)
    THEN [NoRec EXCEPT !.kind = "http-client", !.op = op, !.argsOk = argsOk]
    ELSE [NoRec EXCEPT !.kind = "http-client", !.op = op, !.argsOk = argsOk,
                       !.fmtOut = fmtOut, !.method = method, !.target = baseURL,
                       !.handled = TRUE, !.env = env, !.started = TRUE,
                       !.parent = recorderParent(env),
                       !.ctx = recorderSpanCtx(recorderParent(env)),
                       !.injected = recorderSpanCtx(recorderParent(env)),
                       !.spanName = SpanNameOr(fmtOut, IF baseURL # ""
                                                       THEN <<method, " ", baseURL>>
                                                       ELSE <<method>>)]

\* cacheRecorder: handled for the three cache operations with their
\* arguments; the default name is the method and the cache name.
cacheRecorder(env, op, argsOk, fmtOut, name) ==
    LET method == CASE op = "cache-get" -> "GET "
                    [] op = "cache-set" -> "SET "
                    [] op = "cache-delete" -> "DELETE "
                    [] OTHER -> ""
    IN IF method = "" \/ ~argsOk
       THEN [NoRec EXCEPT !.kind = "cache", !.op = op, !.argsOk = argsOk]
       ELSE [NoRec EXCEPT !.kind = "cache", !.op = op, !.argsOk = argsOk,
                          !.fmtOut = fmtOut, !.method = method, !.target = name,
                          !.handled = TRUE, !.env = env, !.started = TRUE,
                          !.parent = recorderParent(env),
                          !.ctx = recorderSpanCtx(recorderParent(env)),
                          !.spanName = SpanNameOr(fmtOut, <<method, name>>)]

\* A callback that leaves the span open when the operation failed.
recorderDoneErrorOpen(r, err, code) ==
    IF err
    THEN [r EXCEPT !.statusCode = "Error", !.exception = TRUE]
    ELSE [r EXCEPT !.ended = TRUE, !.endCalls = @ + 1]

\* The callback a recorder returned, called when the operation is over: an
\* error gives the span the error status and an exception event; without one
\* the http client sets the status of the response code; the span is ended.
recorderDone(r, err, code) ==
    IF err
    THEN [r EXCEPT !.statusCode = "Error", !.exception = TRUE, !.ended = TRUE,
                   !.endCalls = @ + 1]
    ELSE IF r.kind = "http-client"
         THEN [r EXCEPT !.statusCode = HTTPServerStatus(code).code,
                        !.httpStatus = code, !.ended = TRUE, !.endCalls = @ + 1]
         ELSE [r EXCEPT !.ended = TRUE, !.endCalls = @ + 1]

\* The dispatch loop calls the http-client recorder.
HttpClientRecord(env, op, argsOk, fmtOut, method, baseURL) ==
    /\ rec' = httpClientRecorder(env, op, argsOk, fmtOut, method, baseURL)
    /\ UNCHANGED <<reqVars, regs, disp, bridge, regOps, logger, app, conv>>

\* The instrumented operation is over and calls the recorder's callback.
RecorderDone(err, code) ==
    /\ rec.handled /\ rec.doneCalls = 0
    /\ rec' = [recorderDone(rec, err, code) EXCEPT !.doneCalls = @ + 1]
    /\ UNCHANGED <<reqVars, regs, disp, bridge, regOps, logger, app, conv>>

\* The dispatch loop calls the cache recorder.
CacheRecord(env, op, argsOk, fmtOut, name) ==
    /\ rec' = cacheRecorder(env, op, argsOk, fmtOut, name)
    /\ UNCHANGED <<reqVars, regs, disp, bridge, regOps, logger, app, conv>>

\* ------------------------------------------------------- network attributes
\* An address is a string, held as a sequence of pieces: a piece is one of
\* the characters the code looks for, a run of digits or a run of other
\* characters.
MaxAddrLen == 5

DigitPieces == {"9090", "99999"}

Pieces == {"example.com", ":", "[", "]"} \cup DigitPieces

Addresses == UNION { [1..n -> Pieces] : n \in 0..MaxAddrLen }

\* The number a run of digits stands for.
PieceValue(d) == IF d = "9090" THEN 9090 ELSE 99999

\* strings.LastIndex and strings.Index for one character, counted from 1;
\* 0 when the character does not occur.
LastIndex(str, c) ==
    LET at == { i \in DOMAIN str : str[i] = c }
    IN IF at = {} THEN 0 ELSE CHOOSE i \in at : \A j \in at : j <= i

Index(str, c) ==
    LET at == { i \in DOMAIN str : str[i] = c }
    IN IF at = {} THEN 0 ELSE CHOOSE i \in at : \A j \in at : i <= j

\* net.SplitHostPort: host and port around the last colon, the host in
\* brackets or free of colons; every error comes with an empty host.
netSplitHostPort(hostport) ==
    LET i == LastIndex(hostport, ":")
        failed == [host |-> <<>>, port |-> <<>>, err |-> TRUE]
        bracketed == hostport[1] = "["
        end == Index(hostport, "]")
        host == IF bracketed THEN SubSeq(hostport, 2, end - 1)
                ELSE SubSeq(hostport, 1, i - 1)
        j == IF bracketed THEN 2 ELSE 1
        k == IF bracketed THEN end + 1 ELSE 1
    IN IF i = 0 THEN failed
       ELSE IF bracketed /\ (end = 0 \/ end + 1 # i) THEN failed
       ELSE IF ~bracketed /\ Index(host, ":") # 0 THEN failed
       ELSE IF Index(SubSeq(hostport, j, Len(hostport)), "[") # 0 THEN failed
       ELSE IF Index(SubSeq(hostport, k, Len(hostport)), "]") # 0 THEN failed
       ELSE [host |-> host, port |-> SubSeq(hostport, i + 1, Len(hostport)), err |-> FALSE]

\* strconv.ParseUint(pStr, 10, 16): -1 stands for an error.
ParseUint16(pStr) ==
    IF Len(pStr) = 1 /\ pStr[1] \in DigitPieces /\ PieceValue(pStr[1]) < 65536
    THEN PieceValue(pStr[1])
    ELSE -1

\* splitHostPort.
splitHostPort(hostport) ==
    LET bracketed == hostport # <<>> /\ hostport[1] = "["
        addrEnd == LastIndex(hostport, "]")
        split == netSplitHostPort(hostport)
    IN IF bracketed /\ addrEnd = 0
       THEN [host |-> <<>>, port |-> -1]
       ELSE IF bracketed /\ LastIndex(SubSeq(hostport, addrEnd, Len(hostport)), ":") = 0
       THEN [host |-> SubSeq(hostport, 2, addrEnd - 1), port |-> -1]
       ELSE IF ~bracketed /\ LastIndex(hostport, ":") = 0
       THEN [host |-> hostport, port |-> -1]
       ELSE IF split.err
       THEN [host |-> split.host, port |-> -1]
       ELSE [host |-> split.host, port |-> ParseUint16(split.port)]

\* A builder that gives the address attribute for every address.
hostPortAttrsAlways(prefix, host, port) ==
    <<[key |-> prefix \o ".address", val |-> host]>>
        \o IF port >= 0 THEN <<[key |-> prefix \o ".port", val |-> port]>> ELSE <<>>

\* The body netConv.server and netConv.networkPeer share: nothing for an
\* empty host, else the address and, for a port that is not negative, the port.
hostPortAttrs(prefix, host, port) ==
    IF host = <<>> THEN <<>>
    ELSE <<[key |-> prefix \o ".address", val |-> host]>>
             \o IF port >= 0 THEN <<[key |-> prefix \o ".port", val |-> port]>> ELSE <<>>

\* No attribute builder has been called; addr is the address at hand.
NoConv == [fn |-> "none", addr |-> <<>>, host |-> <<>>, port |-> -1, ret |-> <<>>]

\* netConv.server called with the address at hand.
Server ==
    LET addr == conv.addr
        hp == splitHostPort(addr)
    IN /\ conv.fn = "none"
       /\ conv' = [fn |-> "server", addr |-> addr, host |-> hp.host, port |-> hp.port,
                   ret |-> hostPortAttrs("server", hp.host, hp.port)]
       /\ UNCHANGED <<reqVars, regs, disp, bridge, regOps, logger, app, rec>>

\* netConv.networkPeer called with the address at hand.
NetworkPeer ==
    LET addr == conv.addr
        hp == splitHostPort(addr)
    IN /\ conv.fn = "none"
       /\ conv' = [fn |-> "networkPeer", addr |-> addr, host |-> hp.host, port |-> hp.port,
                   ret |-> hostPortAttrs("network.peer", hp.host, hp.port)]
       /\ UNCHANGED <<reqVars, regs, disp, bridge, regOps, logger, app, rec>>

\* ------------------------------------------------ client request attributes
MaxHeaders == 2

\* Values a caller may hold secret: credentials, a query string, header values.
Secrets == {"s1", "s2"}

redactedCredentials == "REDACTED"

redactedHeaderValue == "****"

\* cc.redactedHeaders.
redactedHeaders ==
    {"authorization", "www-authenticate", "x-api-key", "proxy-authenticate",
     "proxy-authorization", "cookie", "set-cookie"}

\* Header names as the header object gives them, and strings.ToLower of them.
RequestHeaderKeys == {"Authorization", "X-Request-Id"}

ResponseHeaderKeys == {"Set-Cookie", "Content-Type"}

ToLower(k) ==
    CASE k = "Authorization" -> "authorization"
      [] k = "X-Request-Id" -> "x-request-id"
      [] k = "Set-Cookie" -> "set-cookie"
      [] k = "Content-Type" -> "content-type"
      [] k = "User-Agent" -> "user-agent"
      [] k = "Content-Length" -> "content-length"
      [] OTHER -> k

HeaderLists(keys) ==
    UNION { [1..n -> [key : keys, val : Secrets]] : n \in 0..MaxHeaders }

\* A URI is held as its parts; its string is determined by them.
ClientRequests ==
    [method : {"", "POST"},
     uri : [scheme : {"http", "https"},
            username : {""} \cup Secrets,
            password : {""} \cup Secrets,
            host : {<<"example.com">>, <<"example.com", ":", "9090">>},
            path : {"/v1"},
            query : {""} \cup Secrets],
     userAgent : {"", "azugo"},
     contentLength : {0},
     headers : HeaderLists(RequestHeaderKeys)]

ClientResponses ==
    [statusCode : {200, 401},
     userAgent : {""},
     contentLength : {0, 12},
     headers : HeaderLists(ResponseHeaderKeys)]

\* Header.All(): the user agent and the content length are headers too.
HeaderAll(msg) ==
    (IF msg.userAgent # "" THEN <<[key |-> "User-Agent", val |-> msg.userAgent]>> ELSE <<>>)
        \o (IF msg.contentLength > 0
            THEN <<[key |-> "Content-Length", val |-> msg.contentLength]>> ELSE <<>>)
        \o msg.headers

\* The copy of the request's URI after ClientRequest has edited it.
redactURI(uri) ==
    [uri EXCEPT !.username = IF @ # "" THEN redactedCredentials ELSE @,
                !.password = IF @ # "" THEN redactedCredentials ELSE @,
                !.query = ""]

requiredHTTPPort(https, port) ==
    IF port > 0 /\ ((https /\ port # 443) \/ (~https /\ port # 80)) THEN port ELSE -1

\* A header value that is recorded as it was sent, whatever the header.
headerValueAsSent(key, val) == val

\* The value recorded for a header.
headerValue(key, val) ==
    IF key \in redactedHeaders THEN redactedHeaderValue ELSE val

\* The loop over the headers: one attribute per header that is not skipped.
RECURSIVE headerAttrs(_, _, _)
headerAttrs(prefix, skipped, all) ==
    IF all = <<>> THEN <<>>
    ELSE LET key == ToLower(Head(all).key)
         IN (IF key \in skipped THEN <<>>
             ELSE <<[key |-> prefix \o key, val |-> headerValue(key, Head(all).val)]>>)
                \o headerAttrs(prefix, skipped, Tail(all))

\* clientConv.ClientRequest.
ClientRequest(request) ==
    LET uri == redactURI(request.uri)
        hp == splitHostPort(uri.host)
        isTLS == uri.scheme = "https"
        hostPort == requiredHTTPPort(isTLS, hp.port)
    IN <<[key |-> "http.request.method", val |-> IF request.method = "" THEN "GET" ELSE request.method],
         [key |-> "url.scheme", val |-> IF isTLS THEN "https" ELSE "http"],
         [key |-> "server.address", val |-> hp.host],
         [key |-> "url.full", val |-> uri],
         [key |-> "network.transport", val |-> "tcp"],
         [key |-> "network.protocol.name", val |-> "http"],
         [key |-> "network.protocol.version", val |-> "1.1"]>>
        \o (IF hostPort > 0 THEN <<[key |-> "server.port", val |-> hostPort]>> ELSE <<>>)
        \o (IF request.userAgent # ""
            THEN <<[key |-> "user_agent.original", val |-> request.userAgent]>> ELSE <<>>)
        \o (IF request.contentLength > 0
            THEN <<[key |-> "http.request.header.content-length", val |-> request.contentLength]>>
            ELSE <<>>)
        \o headerAttrs("http.request.header.", {"user-agent", "content-length"}, HeaderAll(request))

\* clientConv.ClientResponse.
ClientResponse(resp) ==
    <<[key |-> "http.response.status_code", val |-> resp.statusCode]>>
        \o (IF resp.contentLength > 0
            THEN <<[key |-> "http.response.header.content-length", val |-> resp.contentLength]>>
            ELSE <<>>)
        \o headerAttrs("http.response.header.", {"content-length"}, HeaderAll(resp))

\* HTTPClientRequest called with the request at hand.
CallClientRequest ==
    /\ conv.fn = "none" /\ conv.kind = "request"
    /\ conv' = [conv EXCEPT !.fn = "ClientRequest", !.ret = ClientRequest(conv.msg)]
    /\ UNCHANGED <<reqVars, regs, disp, bridge, regOps, logger, app, rec>>

\* HTTPClientResponse called with the response at hand.
CallClientResponse ==
    /\ conv.fn = "none" /\ conv.kind = "response"
    /\ conv' = [conv EXCEPT !.fn = "ClientResponse", !.ret = ClientResponse(conv.msg)]
    /\ UNCHANGED <<reqVars, regs, disp, bridge, regOps, logger, app, rec>>

\* -------------------------------------------------------------------- setup
\* Shutdown functions one setup holds: that of the trace provider and those
\* of further providers.
MaxShutdownFns == 2

\* Calls of the tasker's Start, and of its Stop.
MaxTaskerCalls == 2

\* Configuration.Endpoint: empty, an http or https URL, a URL of another
\* scheme, or text url.Parse rejects.
Endpoints == {"", "http", "https", "ftp", "malformed"}

\* The *Configuration handed to Use (nil included) and the environment:
\* tracesEnv is OTEL_EXPORTER_OTLP_TRACES_ENDPOINT being set.
Configurations ==
    [isNil : {FALSE}, Disabled : BOOLEAN, Endpoint : Endpoints, tracesEnv : BOOLEAN]
    \cup [isNil : {TRUE}, Disabled : {FALSE}, Endpoint : {""}, tracesEnv : BOOLEAN]

\* An IsDisabled that looks at the flag only.
IsDisabledFlagOnly(c) == c.Disabled

\* Configuration.IsDisabled.
IsDisabled(c) == c.Disabled \/ (c.Endpoint = "" /\ ~c.tracesEnv)

\* A newTraceProvider that takes any URL it can parse.
newTraceProviderAnyScheme(c, exporterErr) == c.Endpoint = "malformed" \/ exporterErr

\* newTraceProvider: whether it returns an error.
newTraceProviderErr(c, exporterErr) ==
    \/ c.Endpoint \in {"ftp", "malformed"}
    \/ exporterErr

\* A Stop that gives up at the first shutdown function that fails.
StopInvokedUntilError(fns, fails) ==
    LET bad == { i \in 1..Len(fns) : fails[i] }
    IN IF bad = {} THEN Indices(Len(fns))
       ELSE Indices(CHOOSE i \in bad : \A j \in bad : i <= j)

\* The loop of setup.Stop: the shutdown functions it calls, in order.
StopInvoked(fns, fails) == Indices(Len(fns))

\* The application before Use, with no tasker.
NoApp ==
    [used |-> FALSE,
     config |-> [isNil |-> TRUE, Disabled |-> FALSE, Endpoint |-> "", tracesEnv |-> FALSE],
     tasker |-> "none", err |-> FALSE,
     tracerProvider |-> FALSE, propagator |-> FALSE, panicHandler |-> FALSE,
     middleware |-> 0, instrumentation |-> 0,
     shutdownFns |-> <<>>, starts |-> 0, stops |-> 0, logged |-> 0,
     lastStop |-> [registered |-> <<>>, fails |-> <<>>, invoked |-> <<>>,
                   joined |-> <<>>]]

\* Use(app, config, opts...): nFns is the number of providers it constructs.
Use(c, exporterErr, nFns) ==
    /\ ~app.used
    /\ app' =
         IF IsDisabled(c)
         THEN [app EXCEPT !.used = TRUE, !.config = c, !.tasker = "noop"]
         ELSE IF newTraceProviderErr(c, exporterErr)
         THEN [app EXCEPT !.used = TRUE, !.config = c, !.err = TRUE]
         ELSE [app EXCEPT !.used = TRUE, !.config = c, !.tasker = "setup",
                          !.tracerProvider = TRUE, !.propagator = TRUE,
                          !.panicHandler = TRUE, !.middleware = @ + 1,
                          !.instrumentation = @ + 1,
                          !.shutdownFns = [i \in 1..nFns |->
                                               IF i = 1 THEN "trace" ELSE "provider"]]
    /\ UNCHANGED <<reqVars, regs, disp, bridge, regOps, logger, rec, conv>>

\* Start of the tasker Use returned: setup.Start and noop.Start.
TaskerStart ==
    /\ app.tasker # "none"
    /\ app.starts < MaxTaskerCalls
    /\ app' = [app EXCEPT !.starts = @ + 1]
    /\ UNCHANGED <<reqVars, regs, disp, bridge, regOps, logger, rec, conv>>

\* Stop of the tasker Use returned: noop.Stop does nothing; setup.Stop calls
\* the shutdown functions, joins their errors, forgets the functions and logs.
TaskerStop(fails) ==
    /\ app.tasker # "none"
    /\ app.stops < MaxTaskerCalls
    /\ DOMAIN fails = DOMAIN app.shutdownFns
    /\ app' =
         IF app.tasker = "noop"
         THEN [app EXCEPT !.stops = @ + 1]
         ELSE LET invoked == StopInvoked(app.shutdownFns, fails)
              IN [app EXCEPT
                     !.stops = @ + 1,
                     !.shutdownFns = <<>>,
                     !.logged = @ + 1,
                     !.lastStop = [registered |-> app.shutdownFns, fails |-> fails,
                                   invoked |-> invoked,
                                   joined |-> SelectSeq(invoked, LAMBDA i : fails[i])]]
    /\ UNCHANGED <<reqVars, regs, disp, bridge, regOps, logger, rec, conv>>

Configs ==
    [publicEndpoint : BOOLEAN, publicEndpointFn : BOOLEAN,
     traceLogging : BOOLEAN, nFilters : 0..MaxFilters]

\* No request is being served.
IdleRequests ==
    /\ pc = [u \in Units |-> "idle"]
    /\ reqNo = [u \in Units |-> 0]
    /\ outcome = [u \in Units |-> "none"]
    /\ span = [u \in Units |-> NoSpan]
    /\ userValue = [u \in Units |-> NoValue]
    /\ goroutineTraceContexts = [u \in Units |-> Absent]
    /\ calls = [u \in Units |-> NoCalls]
    /\ sink = [u \in Units |-> <<>>]
    /\ status = [u \in Units |-> 200]
    /\ panicVal = [u \in Units |-> "nil"]
    /\ phRan = [u \in Units |-> FALSE]
    /\ piRan = [u \in Units |-> FALSE]
    /\ req = [u \in Units |-> NoReq]

Init ==
    /\ cfg \in Configs
    /\ IdleRequests
    /\ regs = traceConfig(<<>>)
    /\ disp = NoDispatch
    /\ bridge = NoBridge
    /\ regOps = NoRegOps
    /\ logger = NoLogger
    /\ app = NoApp
    /\ rec = NoRec
    /\ conv = NoConv

Routes == {"", "/user/{id}"}

Methods == {"GET"}

\* One goroutine serving requests of every kind, under every configuration.
Next ==
    \E u \in {"g1"} :
        \/ \E in \in Inputs(cfg.nFilters, IncomingCtxs, Routes, Methods) :
               HandleEnter(u, in)
        \/ HandlerLog(u)
        \/ \E code \in StatusCodes : HandlerReturn(u, code)
        \/ \E val \in PanicVals, code \in {200, StatusInternalServerError} :
               HandlerPanic(u, val, code)
        \/ PanicHandler(u)
        \/ \E err \in {"nil", panicVal[u]} : PanicInstr(u, err)
        \/ HostDone(u)
        \/ NextRequest(u)

Spec == Init /\ [][Next]_vars

\* Two goroutines serving requests concurrently: one filter, no public
\* endpoint, a matched route, and the registry shared between them.
ConcConfigs ==
    { c \in Configs : ~c.publicEndpoint /\ ~c.publicEndpointFn /\ c.nFilters = 1 }

InitConc == Init /\ cfg \in ConcConfigs

NextConc ==
    \E u \in Units :
        \/ \E in \in Inputs(cfg.nFilters, {NoSpanCtx}, {"/user/{id}"}, Methods) :
               HandleEnter(u, in)
        \/ HandlerLog(u)
        \/ \E code \in {200, 500} : HandlerReturn(u, code)
        \/ \E val \in {"error", "other"} : HandlerPanic(u, val, 200)
        \/ PanicHandler(u)
        \/ \E err \in {"nil", panicVal[u]} : PanicInstr(u, err)
        \/ HostDone(u)
        \/ NextRequest(u)

SpecConc == InitConc /\ [][NextConc]_vars

\* The configuration Use installs when no option is given.
DefaultConfig ==
    [publicEndpoint |-> FALSE, publicEndpointFn |-> FALSE, traceLogging |-> TRUE,
     nFilters |-> 0]

\* Sequences of at most n elements of S.
SeqUpTo(S, n) == UNION { [1..k -> S] : k \in 0..n }

\* The instrumenter built from any registrations of the user.
InitInstr ==
    /\ cfg = DefaultConfig
    /\ IdleRequests
    /\ regs \in { traceConfig(user) : user \in SeqUpTo(UserRecorders, MaxRecorders) }
    /\ disp = NoDispatch
    /\ bridge = NoBridge
    /\ regOps = NoRegOps
    /\ logger = NoLogger
    /\ app = NoApp
    /\ rec = NoRec
    /\ conv = NoConv

NextInstr == \E op \in OpIds, argsOk \in BOOLEAN : Dispatch(op, argsOk)

SpecInstr == InitInstr /\ [][NextInstr]_vars

\* The context bridge called on the background context, on the request object
\* or on the stored context, whatever the reserved key holds.
InitBridge ==
    /\ cfg = DefaultConfig
    /\ IdleRequests
    /\ regs = traceConfig(<<>>)
    /\ disp = NoDispatch
    /\ regOps = NoRegOps
    /\ logger = NoLogger
    /\ app = NoApp
    /\ rec = NoRec
    /\ conv = NoConv
    /\ \E byValue \in BOOLEAN, stored \in StoredValues :
         \E start \in {Background, RequestCtx} \cup
                       (IF stored.kind = "ctx" THEN {stored.ctx} ELSE {}) :
             bridge = [NoBridge EXCEPT !.byValue = byValue, !.stored = stored,
                                       !.cur = start]

NextBridge == BridgeCall \/ BridgeWrap \/ BridgeExtract

SpecBridge == InitBridge /\ [][NextBridge]_vars

\* Registry operations and log writes by any unit, in any order.
InitReg ==
    /\ cfg = DefaultConfig
    /\ IdleRequests
    /\ regs = traceConfig(<<>>)
    /\ disp = NoDispatch
    /\ bridge = NoBridge
    /\ regOps = NoRegOps
    /\ logger = NoLogger
    /\ app = NoApp
    /\ rec = NoRec
    /\ conv = NoConv

\* The fields a caller passes to one log write.
CallerFields ==
    UNION { [1..k -> [key : FieldKeys, val : {"v"}]] : k \in 0..MaxFields }

NextReg ==
    \E u \in Units :
        \/ \E spanCtx \in IncomingCtxs : RegSet(u, spanCtx)
        \/ RegGet(u)
        \/ RegClear(u)
        \/ \E level \in Levels, fields \in CallerFields, sinkErr \in BOOLEAN :
               LogWrite(u, level, fields, sinkErr)
        \/ LogWith(<<[key |-> "service", val |-> "v"]>>)

SpecReg == InitReg /\ [][NextReg]_vars

\* Log writes of one unit with fields of any key and value, through a logger
\* with or without fields of its own, inside and outside a traced request.
InitLog ==
    /\ cfg = DefaultConfig
    /\ IdleRequests
    /\ regs = traceConfig(<<>>)
    /\ disp = NoDispatch
    /\ bridge = NoBridge
    /\ regOps = NoRegOps
    /\ logger = NoLogger
    /\ app = NoApp
    /\ rec = NoRec
    /\ conv = NoConv

\* The fields of an entry: a key of the caller's or one the record body
\* uses itself, and a value JSON can hold or not.
EntryFields ==
    UNION { [1..k -> [key : {"user", "message"}, val : {"v", NaN}]] : k \in 0..MaxFields }

NextLog ==
    \/ \E spanCtx \in {RequestSpanCtx} : RegSet("g1", spanCtx)
    \/ \E level \in Levels, fields \in EntryFields, sinkErr \in BOOLEAN :
           LogWrite("g1", level, fields, sinkErr)
    \/ LogWith(<<[key |-> "service", val |-> "v"]>>)

SpecLog == InitLog /\ [][NextLog]_vars

\* Use called once on a fresh application, then the tasker's Start and Stop.
InitSetup ==
    /\ cfg = DefaultConfig
    /\ IdleRequests
    /\ regs = traceConfig(<<>>)
    /\ disp = NoDispatch
    /\ bridge = NoBridge
    /\ regOps = NoRegOps
    /\ logger = NoLogger
    /\ app = NoApp
    /\ rec = NoRec
    /\ conv = NoConv

NextSetup ==
    \/ \E c \in Configurations, exporterErr \in BOOLEAN, nFns \in 1..MaxShutdownFns :
           Use(c, exporterErr, nFns)
    \/ TaskerStart
    \/ \E fails \in SeqUpTo(BOOLEAN, MaxShutdownFns) : TaskerStop(fails)

SpecSetup == InitSetup /\ [][NextSetup]_vars

\* The built-in recorders called with any operation and arguments.
InitRec ==
    /\ cfg = DefaultConfig
    /\ IdleRequests
    /\ regs = traceConfig(<<>>)
    /\ disp = NoDispatch
    /\ bridge = NoBridge
    /\ regOps = NoRegOps
    /\ logger = NoLogger
    /\ app = NoApp
    /\ rec = NoRec
    /\ conv = NoConv

RecOps == {"http-client-request", "cache-get", "cache-set", "cache-delete", "custom"}

NextRec ==
    \E env \in RecEnvs, op \in RecOps, argsOk \in BOOLEAN,
       fmtOut \in FormatterOutputs, target \in Targets :
        \/ \E method \in ClientMethods :
               HttpClientRecord(env, op, argsOk, fmtOut, method, target)
        \/ CacheRecord(env, op, argsOk, fmtOut, target)
        \/ \E err \in BOOLEAN, code \in {200, 404, StatusInternalServerError} :
               RecorderDone(err, code)

SpecRec == InitRec /\ [][NextRec]_vars

\* The attribute builders called with any address.
InitConv ==
    /\ cfg = DefaultConfig
    /\ IdleRequests
    /\ regs = traceConfig(<<>>)
    /\ disp = NoDispatch
    /\ bridge = NoBridge
    /\ regOps = NoRegOps
    /\ logger = NoLogger
    /\ app = NoApp
    /\ rec = NoRec
    /\ conv \in { [NoConv EXCEPT !.addr = addr] : addr \in Addresses }

NextConv ==
    \/ Server
    \/ NetworkPeer

SpecConv == InitConv /\ [][NextConv]_vars

\* The client attribute builders called with any request or response.
InitClient ==
    /\ cfg = DefaultConfig
    /\ IdleRequests
    /\ regs = traceConfig(<<>>)
    /\ disp = NoDispatch
    /\ bridge = NoBridge
    /\ regOps = NoRegOps
    /\ logger = NoLogger
    /\ app = NoApp
    /\ rec = NoRec
    /\ conv \in { [fn |-> "none", kind |-> "request", msg |-> r, ret |-> <<>>] :
                    r \in ClientRequests }
              \cup { [fn |-> "none", kind |-> "response", msg |-> r, ret |-> <<>>] :
                       r \in ClientResponses }

NextClient ==
    \/ CallClientRequest
    \/ CallClientResponse

SpecClient == InitClient /\ [][NextClient]_vars

\* The goroutine keeps running: the handler returns or panics, the router runs
\* its PanicHandler and finishes the request.
SpecLive == Spec /\ WF_vars(Next)

\* ------------------------------------------------------------------ claims
\* Status codes the mapping is checked on: -MaxStatus..MaxStatus.
MaxStatus == 700

\* C1 as stated: every span the middleware started has been ended by the time
\* the request is over, on every exit path.
C1_EverySpanEnded ==
    \A u \in Units : (pc[u] = "done" /\ span[u].started) => span[u].endCalls >= 1

\* C1 as amended: every span the middleware started that is recording is
\* eventually ended, whether the handler returns or panics.
C1_RecordingSpanEnded ==
    \A u \in Units :
        (span[u].started /\ span[u].recording) ~> (span[u].endCalls >= 1)

\* A recording span ended by the panic handler alone.
C1_Witness ==
    \E u \in Units :
        /\ pc[u] = "done" /\ phRan[u] /\ ~piRan[u]
        /\ span[u].sampled /\ span[u].endCalls = 1

\* C2: End is called on the request span at most once, over the finalize step,
\* the panic handler and the panic instrumentation callback.
C2_EndAtMostOnce == \A u \in Units : span[u].endCalls <= 1

\* C3: once the handler has returned or panicked and handle has returned, a
\* registry get for the goroutine returns no span context.
C3_RegistryClearedAfterHandle ==
    \A u \in Units :
        pc[u] \in {"idle", "panicked", "done"} =>
            currentSpanCtx(goroutineTraceContexts, u) = NoSpanCtx

\* A traced request with log correlation on whose handler panicked.
C3_Witness ==
    \E u \in Units :
        /\ pc[u] = "panicked" /\ cfg.traceLogging
        /\ outcome[u] = "traced" /\ calls[u].regStore = 1

\* C4: for a request a filter rejects, handle starts no span, writes neither the
\* reserved key nor the registry, and invokes the next handler.
C4_FilteredRequestUntouched ==
    \A u \in Units :
        req[u].rejected =>
            /\ ~span[u].started
            /\ userValue[u] = NoValue
            /\ calls[u].keySet = 0
            /\ calls[u].regStore = 0
            /\ goroutineTraceContexts[u] = Absent
            /\ calls[u].next = 1

\* A request rejected by the second filter, with log correlation on.
C4_Witness ==
    \E u \in Units :
        /\ req[u].rejected /\ cfg.traceLogging /\ calls[u].filters = 2
        /\ pc[u] = "done"

\* The fields TraceCore.Write adds for a span context.
CorrelationFields(sc) ==
    <<[key |-> "trace.id", val |-> sc.trace], [key |-> "span.id", val |-> sc.span]>>

\* C5: with log correlation on, every log write issued while the request's
\* span is started and not ended reaches the sink with that span's ids,
\* the panic handler's log write included.
C5_LogsCarryActiveSpanIds ==
    cfg.traceLogging =>
        \A u \in Units : \A i \in DOMAIN sink[u] :
            IsValid(sink[u][i].active) =>
                sink[u][i].fields = CorrelationFields(sink[u][i].active)

\* The request was handled as a public endpoint.
HandledAsPublic(u) == cfg.publicEndpoint \/ (cfg.publicEndpointFn /\ req[u].pubFn)

\* C7: on a public endpoint the span is a new root; it carries exactly one
\* link, to the incoming context, when that is valid and remote, and no link
\* otherwise.
C7_PublicEndpointLinksRemote ==
    \A u \in Units :
        (outcome[u] = "traced" /\ HandledAsPublic(u)) =>
            /\ span[u].newRoot
            /\ span[u].parent = NoSpanCtx
            /\ span[u].ctx.trace = <<u, reqNo[u]>>
            /\ IF req[u].incoming.valid /\ req[u].incoming.remote
               THEN span[u].links = <<req[u].incoming>>
               ELSE span[u].links = <<>>

\* A public endpoint reached with a valid remote context, by the predicate.
C7_Witness ==
    \E u \in Units :
        /\ outcome[u] = "traced" /\ ~cfg.publicEndpoint /\ req[u].pubFn
        /\ req[u].incoming.remote /\ Len(span[u].links) = 1

\* The status mapping on every code of -MaxStatus..MaxStatus.
StatusMappingHolds ==
    \A c \in (-MaxStatus)..MaxStatus :
        /\ (100 <= c /\ c < 500) => HTTPServerStatus(c).code = "Unset"
        /\ (c >= 500 \/ c < 100 \/ c >= 600) => HTTPServerStatus(c).code = "Error"

\* C8: the span status is unset for 100 <= c < 500 and error for c >= 500 or c
\* outside [100,600), and on normal return handle sets the span of a recording
\* request to the status of the final response code.
C8_StatusMapping ==
    /\ StatusMappingHolds
    /\ \A u \in Units :
           (pc[u] = "done" /\ outcome[u] = "traced" /\ ~phRan[u] /\ span[u].sampled) =>
               /\ span[u].httpStatus = status[u]
               /\ (100 <= status[u] /\ status[u] < 500) => span[u].statusCode = "Unset"
               /\ (status[u] >= 500 \/ status[u] < 100) => span[u].statusCode = "Error"

\* A client error leaves the span status unset.
C8_Witness ==
    \E u \in Units :
        /\ pc[u] = "done" /\ outcome[u] = "traced" /\ span[u].sampled
        /\ status[u] = 404 /\ span[u].statusCode = "Unset" /\ span[u].endCalls = 1

\* C6: a call of azugoContext.Context on the context the previous call
\* returned returns nil.
C6_SecondCallAbsent == bridge.chained => bridge.ret = NilCtx

\* The operation's own recorders, in registration order.
RegisteredFor(op) == { i \in 1..Len(regs) : op \in regs[i].ops }

\* The catch-all recorders.
RegisteredCatchAll == { i \in 1..Len(regs) : regs[i].ops = {} }

\* The position at which the last dispatch first invoked recorder i (0: not
\* invoked).
InvokedAt(i) ==
    LET at == { k \in DOMAIN disp.invoked : disp.invoked[k] = i }
    IN IF at = {} THEN 0 ELSE CHOOSE k \in at : \A j \in at : k <= j

\* Recorder i reports handled for the last dispatch.
HandlesLast(i) == Handled(regs[i], disp.op, disp.argsOk)

\* The recorders of the dispatched operation are asked in registration order
\* up to the first that reports handled, which determines the callback.
FirstMatchAmongRegistered ==
    /\ \A i \in RegisteredFor(disp.op) :
           InvokedAt(i) > 0 <=>
               \A j \in RegisteredFor(disp.op) : j < i => ~HandlesLast(j)
    /\ \A i, j \in RegisteredFor(disp.op) :
           (i < j /\ InvokedAt(j) > 0) => (0 < InvokedAt(i) /\ InvokedAt(i) < InvokedAt(j))
    /\ (\E i \in RegisteredFor(disp.op) : HandlesLast(i)) =>
           /\ disp.result = "recorder"
           /\ LET first == CHOOSE i \in RegisteredFor(disp.op) :
                      HandlesLast(i) /\ \A j \in RegisteredFor(disp.op) :
                                            HandlesLast(j) => i <= j
              IN disp.invoked[Len(disp.invoked)] = first

\* C9: for every dispatched operation the recorders registered for it are
\* invoked in registration order, the first that reports handled
\* determines the callback, and those registered after it are not invoked.
C9_FirstMatchInOrder == disp.result # "none" => FirstMatchAmongRegistered

\* C10: a catch-all recorder is invoked only after every recorder registered
\* for the operation has been invoked and has declined; if one of those
\* handles the call, no catch-all recorder is invoked.
C10_CatchAllLast ==
    disp.result # "none" =>
        /\ \A c \in RegisteredCatchAll :
               InvokedAt(c) > 0 =>
                   \A i \in RegisteredFor(disp.op) :
                       /\ 0 < InvokedAt(i) /\ InvokedAt(i) < InvokedAt(c)
                       /\ ~HandlesLast(i)
        /\ (\E i \in RegisteredFor(disp.op) : InvokedAt(i) > 0 /\ HandlesLast(i)) =>
               \A c \in RegisteredCatchAll : InvokedAt(c) = 0

\* Some recorder consulted for the last dispatch reports handled.
SomeRecorderHandles ==
    \E i \in 1..Len(regs) :
        /\ disp.op \in regs[i].ops \/ regs[i].ops = {} \/ "" \in regs[i].ops
        /\ HandlesLast(i)

\* C11: dispatch always returns a callback, and when no registered recorder
\* handles the call that callback is the no-op one.
C11_UnhandledIsNoop ==
    disp.result # "none" =>
        /\ disp.result \in {"recorder", "noop", "panic"}
        /\ ~SomeRecorderHandles => disp.result = "noop"

\* The request of unit u is over, its handler panicked with a text or an
\* error, and its span was valid and recording when it did.
PanickedWhileRecording(u) ==
    /\ pc[u] = "done"
    /\ panicVal[u] \in {"error", "string"}
    /\ span[u].started /\ span[u].sampled /\ IsValid(span[u].ctx)

\* C12: after a handler panicked with a text or error value while its span
\* was valid and recording, the span is ended with error status, the status
\* message is the text of the value, and an exception event with a stack
\* trace is recorded.
C12_PanicRecordedOnSpan ==
    \A u \in Units :
        PanickedWhileRecording(u) =>
            /\ span[u].endCalls >= 1
            /\ span[u].statusCode = "Error"
            /\ span[u].statusMsg = panicVal[u]
            /\ \E k \in DOMAIN span[u].events :
                   /\ span[u].events[k].name = "exception"
                   /\ span[u].events[k].stacktrace

\* What the original core would have received for the last log write.
OriginalDelivery ==
    IF logger.level \in EnabledLevels
    THEN <<[level |-> logger.level, fields |-> logger.fields]>>
    ELSE <<>>

\* C13: what the sink receives for a log write is what the original core
\* would have received, once, with the caller's fields unchanged and in
\* order, followed by trace.id and span.id exactly when the registry has an
\* entry for the writing unit.
C13_SinkGetsOriginalPlusIds ==
    logger.op = "write" =>
        /\ Len(logger.sink) = Len(OriginalDelivery)
        /\ \A k \in DOMAIN logger.sink :
               /\ logger.sink[k].level = logger.level
               /\ SubSeq(logger.sink[k].fields, 1, Len(logger.fields)) = logger.fields
               /\ LET entry == logger.entry
                      added == SubSeq(logger.sink[k].fields, Len(logger.fields) + 1,
                                      Len(logger.sink[k].fields))
                  IN IF entry = Absent THEN added = <<>>
                     ELSE added = CorrelationFields(entry)

\* A write with two caller fields, one of them named trace.id, reaches the
\* sink with the identifiers appended after them.
C13_Witness ==
    /\ logger.op = "write" /\ Len(logger.fields) = 2
    /\ logger.fields[1].key = "trace.id"
    /\ logger.entry # Absent
    /\ Len(logger.sink) = 1 /\ Len(logger.sink[1].fields) = 4

\* C14: every entry of the registry is a valid span context, and a set with
\* an invalid context leaves the registry as it was.
C14_OnlyValidEntries ==
    /\ [](\A u \in Units :
              goroutineTraceContexts[u] # Absent => goroutineTraceContexts[u].valid)
    /\ [][(regOps'.op = "set" /\ ~regOps'.arg.valid /\ regOps' # regOps) =>
              goroutineTraceContexts' = goroutineTraceContexts]_vars

\* A set with an invalid context was made while the unit had an entry, which
\* is still there.
C14_Witness ==
    /\ regOps.op = "set" /\ ~regOps.arg.valid
    /\ goroutineTraceContexts[regOps.unit] # Absent

\* What get returns for unit u.
GetOf(reg, u) == IF reg[u] = Absent THEN NoSpanCtx ELSE reg[u]

\* C15: an operation of one unit never changes what get returns for another
\* unit, and get returns the context the unit last set and has not cleared.
C15_UnitsIsolated ==
    /\ [][\A a, b \in Units :
              (regOps'.unit = a /\ regOps' # regOps /\ b # a) =>
                  GetOf(goroutineTraceContexts', b) = GetOf(goroutineTraceContexts, b)]_vars
    /\ [](regOps.op = "get" =>
              regOps.ret = IF regOps.shadow[regOps.unit] = Absent THEN NoSpanCtx
                           ELSE regOps.shadow[regOps.unit])

\* Unit g1 gets its own context back while g2 holds a different one.
C15_Witness ==
    /\ regOps.op = "get" /\ regOps.unit = "g1" /\ regOps.ret.valid
    /\ goroutineTraceContexts["g2"] # Absent
    /\ goroutineTraceContexts["g2"] # regOps.ret

\* The reserved key of the request object of the context last handed to
\* FromContext holds a context.
HoldsStoredContext ==
    /\ bridge.extArg.direct \/ (bridge.byValue /\ bridge.extArg.fromReq)
    /\ bridge.stored.kind = "ctx"

\* C16 as stated: FromContext returns the stored context when the reserved
\* key holds one, and nil in every other case.
C16_ExtractOrAbsent ==
    bridge.extracted =>
        bridge.ext = IF HoldsStoredContext THEN bridge.stored.ctx ELSE NilCtx

\* C16 as amended: FromContext returns the stored context when the reserved
\* key holds one, and in every other case the context it was given.
C16_ExtractOrSame ==
    bridge.extracted =>
        bridge.ext = IF HoldsStoredContext THEN bridge.stored.ctx ELSE bridge.extArg

\* FromContext called on the request object whose reserved key holds a
\* value that is no context: it answers with the request object.
C16_Witness ==
    /\ bridge.extracted /\ bridge.extArg = RequestCtx
    /\ bridge.stored.kind = "other" /\ bridge.ext = RequestCtx

\* Use has installed nothing on the application.
Untouched ==
    /\ ~app.tracerProvider /\ ~app.propagator /\ ~app.panicHandler
    /\ app.middleware = 0 /\ app.instrumentation = 0

\* The configured endpoint is malformed or of a scheme other than http(s).
BadEndpoint == app.config.Endpoint \in {"ftp", "malformed"}

\* C17 as stated: with a malformed endpoint or one of another scheme, Use
\* returns an error and no tasker and installs nothing.
C17_BadEndpointFails ==
    (app.used /\ BadEndpoint) =>
        app.err /\ app.tasker = "none" /\ Untouched

\* C17 as amended: the same, when tracing is not disabled by the flag; with
\* the flag set Use returns the no-op tasker and no error, and in both cases
\* it installs nothing.
C17_BadEndpointFailsUnlessDisabled ==
    (app.used /\ BadEndpoint) =>
        /\ Untouched
        /\ IF app.config.Disabled
           THEN ~app.err /\ app.tasker = "noop"
           ELSE app.err /\ app.tasker = "none"

\* Use has failed on an endpoint of another scheme.
C17_Witness ==
    /\ app.used /\ app.config.Endpoint = "ftp" /\ ~app.config.Disabled
    /\ app.err /\ app.tasker = "none"

\* C18: with tracing disabled by the flag, or with no endpoint in the
\* configuration (a nil one included) or the environment, Use returns the
\* no-op tasker and no error and installs nothing, and the no-op tasker's
\* Start and Stop change nothing.
C18_DisabledInstallsNothing ==
    (app.used /\ (app.config.Disabled
                  \/ (app.config.Endpoint = "" /\ ~app.config.tracesEnv))) =>
        /\ app.tasker = "noop" /\ ~app.err
        /\ Untouched
        /\ app.shutdownFns = <<>> /\ app.logged = 0
        /\ app.lastStop = NoApp.lastStop

\* Use was given a nil configuration and the no-op tasker it returned has
\* been started and stopped.
C18_Witness ==
    /\ app.used /\ app.config.isNil /\ app.tasker = "noop"
    /\ app.starts >= 1 /\ app.stops >= 1

\* C19: Stop calls every registered shutdown function, in registration
\* order, whatever the earlier ones returned, joins the errors of those that
\* failed and logs once; Start changes nothing.
C19_StopCallsAll ==
    /\ [](app.stops >= 1 /\ app.tasker = "setup" =>
              /\ app.lastStop.invoked = Indices(Len(app.lastStop.registered))
              /\ app.lastStop.joined =
                     SelectSeq(Indices(Len(app.lastStop.registered)),
                               LAMBDA i : app.lastStop.fails[i])
              /\ app.logged = app.stops)
    /\ [][app'.starts # app.starts =>
              app' = [app EXCEPT !.starts = app'.starts]]_vars

\* A Stop whose first shutdown function failed has called the second.
C19_Witness ==
    /\ app.stops = 1 /\ Len(app.lastStop.registered) = 2
    /\ app.lastStop.fails[1] /\ ~app.lastStop.fails[2]
    /\ app.lastStop.invoked = <<1, 2>> /\ app.lastStop.joined = <<1>>

C21_StaticFlagFirst ==
    \A u \in Units :
        /\ calls[u].pubFn <= 1
        /\ outcome[u] = "traced" =>
               IF cfg.publicEndpoint
               THEN span[u].newRoot /\ calls[u].pubFn = 0
               ELSE IF cfg.publicEndpointFn
               THEN calls[u].pubFn = 1 /\ span[u].newRoot = req[u].pubFn
               ELSE calls[u].pubFn = 0 /\ ~span[u].newRoot

\* A request traced with both the static flag and a predicate configured.
C21_Witness ==
    \E u \in Units :
        /\ outcome[u] = "traced" /\ cfg.publicEndpoint /\ cfg.publicEndpointFn
        /\ span[u].newRoot /\ calls[u].pubFn = 0

\* C22: a request that is not treated as public gets a span that is a child
\* of the extracted context and has no link.
C22_ChildOfExtracted ==
    \A u \in Units :
        (outcome[u] = "traced" /\ ~HandledAsPublic(u)) =>
            /\ ~span[u].newRoot
            /\ span[u].parent = req[u].incoming
            /\ span[u].links = <<>>
            /\ req[u].incoming.valid => span[u].ctx.trace = req[u].incoming.trace

\* A request with a valid remote context, a predicate that said no, and a
\* span in the trace of that context.
C22_Witness ==
    \E u \in Units :
        /\ outcome[u] = "traced" /\ cfg.publicEndpointFn /\ ~HandledAsPublic(u)
        /\ req[u].incoming.valid /\ req[u].incoming.remote
        /\ span[u].ctx.trace = req[u].incoming.trace

\* Unit u has a request in hand or behind it.
InHand(u) == pc[u] # "idle"

C24_FormatterOrDefaultName ==
    rec.handled =>
        IF rec.fmtOut # "" THEN rec.spanName = <<rec.fmtOut>>
        ELSE IF rec.kind = "http-client"
        THEN rec.spanName = IF rec.target = "" THEN <<rec.method>>
                            ELSE <<rec.method, " ", rec.target>>
        ELSE /\ rec.spanName = <<rec.method, rec.target>>
             /\ rec.method = CASE rec.op = "cache-get" -> "GET "
                               [] rec.op = "cache-set" -> "SET "
                               [] rec.op = "cache-delete" -> "DELETE "

\* The cache recorder has named a span by the formatter's own name.
C24_Witness ==
    /\ rec.handled /\ rec.kind = "cache" /\ rec.op = "cache-set"
    /\ rec.fmtOut = "custom" /\ rec.spanName = <<"custom">>

\* The keys of a sequence of fields.
KeysOf(fields) == { fields[k].key : k \in DOMAIN fields }

\* C25: the record emitted for a log entry holds the entry's message, level
\* and logger name and every field of the entry, those given to the write
\* and those attached to the logger through With.
C25_RecordHasAllFields ==
    \A k \in DOMAIN logger.otel :
        /\ logger.otel[k].message = EntryMessage
        /\ logger.otel[k].level = logger.level
        /\ logger.otel[k].loggerName = EntryLoggerName
        /\ KeysOf(logger.fields) \cup KeysOf(logger.with) \subseteq KeysOf(logger.otel[k].fields)

\* An address piece that is none of the characters the split looks for.
Plain(str) == str # <<>> /\ \A i \in DOMAIN str : str[i] \notin {":", "[", "]"}

\* The attributes a builder gives for an address and, when p is not
\* negative, a port.
AttrsOf(fn, h, p) ==
    LET prefix == IF fn = "server" THEN "server" ELSE "network.peer"
    IN <<[key |-> prefix \o ".address", val |-> h]>>
           \o IF p >= 0 THEN <<[key |-> prefix \o ".port", val |-> p]>> ELSE <<>>

\* C26: a builder gives nothing for an address without a host (":9090"
\* among them), the address alone when there is no port or the port does not
\* parse, and the address and the port when the port parses; the port of
\* splitHostPort is -1 or a 16-bit number.
C26_HostPortAttributes ==
    conv.fn # "none" =>
        LET a == conv.addr
            n == Len(a)
        IN /\ conv.port \in -1..65535
           /\ (conv.host = <<>>) = (conv.ret = <<>>)
           /\ conv.ret # <<>> => conv.ret = AttrsOf(conv.fn, conv.host, conv.port)
           /\ (a = <<>> \/ a[1] = ":") => conv.ret = <<>>
           /\ Plain(a) => conv.ret = AttrsOf(conv.fn, a, -1)
           /\ (n >= 2 /\ Plain(SubSeq(a, 1, n - 1)) /\ a[n] = ":") =>
                  conv.ret = AttrsOf(conv.fn, SubSeq(a, 1, n - 1), -1)
           /\ (n >= 3 /\ Plain(SubSeq(a, 1, n - 2)) /\ a[n - 1] = ":" /\ Plain(<<a[n]>>)) =>
                  conv.ret = AttrsOf(conv.fn, SubSeq(a, 1, n - 2),
                                     IF a[n] = "9090" THEN 9090 ELSE -1)
           /\ (n >= 3 /\ a[1] = "[" /\ Plain(SubSeq(a, 2, n - 1)) /\ a[n] = "]") =>
                  conv.ret = AttrsOf(conv.fn, SubSeq(a, 2, n - 1), -1)
           /\ (n >= 5 /\ a[1] = "[" /\ Plain(SubSeq(a, 2, n - 3)) /\ a[n - 2] = "]"
                   /\ a[n - 1] = ":" /\ Plain(<<a[n]>>)) =>
                  conv.ret = AttrsOf(conv.fn, SubSeq(a, 2, n - 3),
                                     IF a[n] = "9090" THEN 9090 ELSE -1)

\* networkPeer was given a host and a port that parses.
C26_Witness ==
    /\ conv.fn = "networkPeer" /\ conv.addr = <<"example.com", ":", "9090">>
    /\ conv.ret = <<[key |-> "network.peer.address", val |-> <<"example.com">>],
                    [key |-> "network.peer.port", val |-> 9090]>>

\* The exit path of unit u's request has run with log correlation on.
ExitedCorrelated(u) ==
    /\ pc[u] \in {"done", "panicked"}
    /\ outcome[u] = "traced"
    /\ cfg.traceLogging

\* C27 as stated: on every exit path of a request with log correlation the
\* clear of the unit's entry runs before the finalize step.
C27_ClearBeforeFinalized ==
    \A u \in Units :
        ExitedCorrelated(u) =>
            \A i, j \in DOMAIN calls[u].steps :
                (calls[u].steps[i] = "clear" /\ calls[u].steps[j] = "finalize") => i < j

\* C27 as the code has it: on every exit path of a request with log
\* correlation the clear has run when handle is left, after the finalize step
\* when the handler returned, and before any panic handler touches the span
\* when the handler panicked.
C27_ClearBeforeHandleIsLeft ==
    \A u \in Units :
        ExitedCorrelated(u) =>
            /\ goroutineTraceContexts[u] = Absent
            /\ calls[u].steps = IF panicVal[u] = "nil" THEN <<"finalize", "clear">>
                                ELSE <<"clear">>
            /\ (pc[u] = "panicked" /\ ~phRan[u] /\ ~piRan[u]) =>
                   (span[u].endCalls = 0 /\ span[u].statusCode = "Unset")

\* A handler returned on a request with log correlation: the span was
\* finalized and then the entry was cleared.
C27_Witness ==
    /\ ExitedCorrelated("g1") /\ pc["g1"] = "done" /\ panicVal["g1"] = "nil"
    /\ calls["g1"].steps = <<"finalize", "clear">>
    /\ span["g1"].endCalls = 1

\* The request of unit u is being handled with log correlation on.
HandlingCorrelated(u) ==
    pc[u] = "handling" /\ outcome[u] = "traced" /\ cfg.traceLogging

C29_KeyWrittenOnceByHandle ==
    /\ [](\A u \in Units :
              IF outcome[u] = "traced"
              THEN calls[u].keySet = 1 /\ userValue[u] = span[u].ctx
              ELSE calls[u].keySet = 0 /\ userValue[u] = NoValue)
    /\ [][\A u \in Units :
              userValue'[u] # userValue[u] =>
                  \/ /\ pc[u] = "idle" /\ pc'[u] = "handling"
                     /\ ~span[u].started /\ span'[u].started
                     /\ calls[u].next = 0 /\ calls'[u].next = 1
                  \/ /\ pc[u] = "done" /\ pc'[u] = "idle"
                     /\ userValue'[u] = NoValue]_vars

\* A handler panicked and both panic handlers ran on a request that carried
\* a valid incoming context: the key still holds the request's own span.
C29_Witness ==
    \E u \in Units :
        /\ outcome[u] = "traced" /\ phRan[u] /\ piRan[u]
        /\ req[u].incoming.valid
        /\ calls[u].keySet = 1 /\ userValue[u] = span[u].ctx
        /\ userValue[u] # req[u].incoming

\* C30: whatever the panic value is, a panicHandler that finds the request
\* span valid and recording gives it the error status, records an exception
\* event with a stack trace and ends it.
C30_AnyPanicValueRecorded ==
    [][\A u \in Units :
           (~phRan[u] /\ phRan'[u] /\ userValue[u] # NoValue
                /\ IsValid(span[u].ctx) /\ span[u].recording) =>
               /\ span'[u].statusCode = "Error"
               /\ span'[u].endCalls = span[u].endCalls + 1
               /\ ~span'[u].recording
               /\ Len(span'[u].events) = Len(span[u].events) + 1
               /\ span'[u].events[Len(span'[u].events)].name = "exception"
               /\ span'[u].events[Len(span'[u].events)].stacktrace]_vars

\* The request of unit u was traced and recorded, and its handler returned.
ReturnedRecorded(u) ==
    /\ pc[u] = "done" /\ outcome[u] = "traced" /\ span[u].sampled
    /\ panicVal[u] = "nil"

\* C31 as stated: the span of a returned request ends with an error status
\* that has no message for every code c >= 500 and a message for every code
\* outside [100,600).
C31_ServerErrorsBare ==
    \A u \in Units :
        ReturnedRecorded(u) =>
            /\ status[u] >= 500 =>
                   (span[u].statusCode = "Error" /\ span[u].statusMsg = "")
            /\ (status[u] < 100 \/ status[u] >= 600) =>
                   (span[u].statusCode = "Error" /\ span[u].statusMsg # "")

\* C31 as the code has it: the error status has no message for every code
\* 500 <= c < 600 and a message for every code outside [100,600), and this is
\* the status and message a returned request's span ends with.
C31_ServerErrorsBareBelow600 ==
    /\ \A c \in (-MaxStatus)..MaxStatus :
           /\ (500 <= c /\ c < 600) =>
                  (HTTPServerStatus(c).code = "Error" /\ HTTPServerStatus(c).msg = "")
           /\ (c < 100 \/ c >= 600) =>
                  (HTTPServerStatus(c).code = "Error" /\ HTTPServerStatus(c).msg # "")
    /\ \A u \in Units :
           ReturnedRecorded(u) =>
               /\ (500 <= status[u] /\ status[u] < 600) =>
                      (span[u].statusCode = "Error" /\ span[u].statusMsg = "")
               /\ (status[u] < 100 \/ status[u] >= 600) =>
                      (span[u].statusCode = "Error" /\ span[u].statusMsg # "")

\* A handler returned with status 500: the span ended with a bare error.
C31_Witness ==
    \E u \in Units :
        /\ ReturnedRecorded(u) /\ status[u] = StatusInternalServerError
        /\ span[u].statusCode = "Error" /\ span[u].statusMsg = ""
        /\ span[u].endCalls = 1

\* C32: a dispatch of the reserved panic operation consults the recorders
\* registered for it and then the catch-all ones under the first-match
\* rule, and the callback it returns is a recorder's or the no-op one, never
\* one made by the dispatch function itself.
C32_PanicOpDispatchedToRecorders ==
    (disp.op = PanicOp /\ disp.result # "none") =>
        /\ disp.result \in {"recorder", "noop"}
        /\ FirstMatchAmongRegistered
        /\ (\A i \in RegisteredFor(PanicOp) \cup RegisteredCatchAll :
                ~Handled(regs[i], PanicOp, disp.argsOk)) =>
               Len(disp.invoked) = Cardinality(RegisteredFor(PanicOp))
                                       + Cardinality(RegisteredCatchAll)

\* The last recorder call was made by the handler of a traced request with a
\* context that leads to the request object.
CalledOnTracedRequest ==
    /\ rec.handled
    /\ rec.env.stored.kind = "ctx"
    /\ RequestContext(rec.env, rec.env.ctx)

\* C33: the span a built-in recorder starts during a traced request is a
\* child of the request's server span, in its trace, and the headers the
\* http-client recorder has injected when it returns carry the context of
\* the new span; the cache recorder injects nothing.
C33_ChildOfServerSpan ==
    /\ CalledOnTracedRequest =>
           /\ rec.started
           /\ rec.parent = RequestSpanCtx
           /\ rec.ctx.trace = RequestSpanCtx.trace
           /\ rec.ctx.span # RequestSpanCtx.span
    /\ rec.handled =>
           rec.injected = IF rec.kind = "http-client" THEN rec.ctx ELSE NoSpanCtx

\* The http-client recorder was called with a context derived from the
\* request object and has injected the new span's context.
C33_Witness ==
    /\ CalledOnTracedRequest /\ rec.kind = "http-client" /\ ~rec.env.ctx.direct
    /\ rec.parent = RequestSpanCtx /\ rec.injected = rec.ctx /\ rec.doneCalls = 0

\* The last recorder call had an operation or arguments its recorder does
\* not take.
NotForRecorder ==
    \/ ~rec.argsOk
    \/ rec.kind = "http-client" /\ rec.op # "http-client-request"
    \/ rec.kind = "cache" /\ rec.op \notin {"cache-get", "cache-set", "cache-delete"}

\* C34: a built-in recorder declines exactly the calls whose operation or
\* arguments are not its own, and then has started no span and injected no
\* headers; each call of the callback of a recorder that handled the call
\* ends the span once, whether the operation failed or not.
C34_DeclineIsClean ==
    rec.kind # "none" =>
        /\ rec.handled = ~NotForRecorder
        /\ ~rec.handled =>
               /\ ~rec.started
               /\ rec.ctx = NoSpanCtx /\ rec.injected = NoSpanCtx
               /\ rec.spanName = <<>> /\ rec.endCalls = 0 /\ rec.doneCalls = 0
        /\ rec.endCalls = rec.doneCalls
        /\ rec.ended = (rec.doneCalls > 0)

\* The cache recorder was called for a cache operation with arguments of the
\* wrong shape and declined.
C34_Witness ==
    /\ rec.kind = "cache" /\ rec.op = "cache-get" /\ ~rec.argsOk
    /\ ~rec.handled /\ ~rec.started

\* C35: handle invokes the next handler once for every request, whether the
\* request is not marked for logging, rejected by a filter or traced, and
\* never again while the request lasts.
C35_NextInvokedOnce ==
    \A u \in Units :
        /\ pc[u] = "idle" => calls[u].next = 0
        /\ pc[u] # "idle" =>
               /\ outcome[u] \in {"notlogged", "filtered", "traced"}
               /\ calls[u].next = 1

\* A request rejected by a filter has been handled, once, and is over.
C35_Witness ==
    \E u \in Units :
        /\ pc[u] = "done" /\ outcome[u] = "filtered" /\ calls[u].next = 1

\* C36: a write whose sink write fails returns that error and emits no
\* record; a write whose sink write succeeds returns no error and emits one
\* record, whatever its fields are.
C36_OneRecordPerWrite ==
    (logger.op = "write" /\ logger.level \in EnabledLevels) =>
        IF logger.sinkErr
        THEN logger.ret = "sink error" /\ logger.otel = <<>>
        ELSE logger.ret = "nil" /\ Len(logger.otel) = 1

\* C37: in the record emitted for a write the keys message, level and
\* logger hold the entry's own message, level and logger name, whatever keys
\* its fields have.
C37_OwnKeysKept ==
    \A k \in DOMAIN logger.otel :
        /\ logger.otel[k].message = EntryMessage
        /\ logger.otel[k].level = logger.level
        /\ logger.otel[k].loggerName = EntryLoggerName

\* The user's registrations and the built-in ones.
UserRegistered == { i \in 1..Len(regs) : regs[i].kind = "user" }

BuiltinRegistered == { i \in 1..Len(regs) : regs[i].kind # "user" }

\* C38 as stated: whatever the operation, a built-in recorder is invoked
\* only after every recorder of the user that takes the operation, a
\* catch-all one included, and not at all when one of them handles the call.
C38_UserBeforeBuiltin ==
    disp.result # "none" =>
        \A b \in BuiltinRegistered :
            InvokedAt(b) > 0 =>
                \A i \in UserRegistered :
                    (disp.op \in regs[i].ops \/ regs[i].ops = {}) =>
                        /\ 0 < InvokedAt(i) /\ InvokedAt(i) < InvokedAt(b)
                        /\ ~regs[i].handles

\* C38 as the code has it: a built-in recorder is invoked only after every
\* recorder the user registered for the operation has been invoked and has
\* declined, and not at all when one of them handles the call; a catch-all
\* recorder of the user is invoked only after the built-in one.
C38_UserForOpBeforeBuiltin ==
    disp.result # "none" =>
        \A b \in BuiltinRegistered :
            InvokedAt(b) > 0 =>
                /\ \A i \in UserRegistered :
                       disp.op \in regs[i].ops =>
                           /\ 0 < InvokedAt(i) /\ InvokedAt(i) < InvokedAt(b)
                           /\ ~regs[i].handles
                /\ \A i \in UserRegistered :
                       (regs[i].ops = {} /\ InvokedAt(i) > 0) =>
                           InvokedAt(b) < InvokedAt(i)

\* A recorder of the user registered for the http-client operation handled
\* the call, and the built-in recorder was not invoked.
C38_Witness ==
    /\ disp.op = "http-client-request" /\ disp.argsOk /\ disp.result = "recorder"
    /\ \E i \in UserRegistered :
           disp.op \in regs[i].ops /\ regs[i].handles /\ InvokedAt(i) > 0
    /\ \A b \in BuiltinRegistered : InvokedAt(b) = 0

\* C39: a Stop after the first finds no shutdown function left to call, so
\* each is called at most once over all Stop calls; and a Stop logs the
\* shutdown-error warning only when a shutdown function it called failed.
C39_StopOnceAndQuietWhenClean ==
    /\ [][(app'.stops > app.stops /\ app.stops >= 1 /\ app.tasker = "setup") =>
              app'.lastStop.invoked = <<>>]_vars
    /\ [][app'.logged > app.logged => app'.lastStop.joined # <<>>]_vars

\* The names of the headers whose values are secret.
SecretHeaders ==
    {"authorization", "www-authenticate", "x-api-key", "proxy-authenticate",
     "proxy-authorization", "cookie", "set-cookie"}

\* The header lists that differ from hs only in the values of secret headers.
HeadersButSecrets(hs) ==
    { [i \in DOMAIN hs |-> [key |-> hs[i].key, val |-> vals[i]]] :
        vals \in { v \in [DOMAIN hs -> Secrets] :
                    \A i \in DOMAIN hs :
                        ToLower(hs[i].key) \notin SecretHeaders => v[i] = hs[i].val } }

\* The requests that differ from request only in the value of the credentials
\* it carries, in its query string and in the values of its secret headers.
RequestsButSecrets(request) ==
    { [request EXCEPT !.uri.username = u, !.uri.password = p, !.uri.query = q, !.headers = h] :
        u \in { x \in Secrets \cup {""} : (x = "") <=> (request.uri.username = "") },
        p \in { x \in Secrets \cup {""} : (x = "") <=> (request.uri.password = "") },
        q \in Secrets \cup {""},
        h \in HeadersButSecrets(request.headers) }

ResponsesButSecrets(resp) ==
    { [resp EXCEPT !.headers = h] : h \in HeadersButSecrets(resp.headers) }

====
